---------------------------- MODULE Spec2Model ----------------------------
(***************************************************************************)
(* A model of the trajectory package of reizentraj: payload loading,       *)
(* coordinate extraction, date filtering, no-fly zones, distance-based     *)
(* segmentation with flight classification, privacy coarsening, travel     *)
(* statistics and the command line that runs them in turn                  *)
(* (src/trajectory/io.py, preprocess.py, time_utils.py, coarsen.py,        *)
(* stats.py, cli.py).                                                      *)
(*                                                                         *)
(* Units.  Latitude and longitude are carried as integers in units of      *)
(* 1e-7 degree (the unit of latitudeE7/longitudeE7).  Distances are        *)
(* carried in whole metres (the floor of the haversine value), thresholds  *)
(* in km as in the code; comparisons convert km to metres.  Timestamps are *)
(* instants in milliseconds.                                               *)
(***************************************************************************)
EXTENDS Integers, Sequences, FiniteSets, TLC

VARIABLES
    coordinates,      \* build_segments: the input coordinate list
    threshold_km,     \* build_segments: the jump threshold
    seg_result,       \* build_segments: what the call returned
    seg_pc,           \* build_segments: "start" before the call, "done" after
    distance_km,      \* compute_total_distance_km: <<>> before the call, <<value>> after
    payload,          \* extract_coordinates: the iterable of entries
    records,          \* extract_coordinates: the list built before sorting
    all_coordinates,  \* extract_coordinates: the list returned
    extract_pc,       \* extract_coordinates: "start", "returned" or "ValueError"
    top,              \* load_takeout_payload: the decoded top-level JSON value
    entries,          \* load_takeout_payload: the entries yielded
    load_pc,          \* load_takeout_payload: "start", "exhausted" or "ValueError"
    filter_input,     \* apply_date_filters: the list passed in
    start,            \* apply_date_filters: the lower bound, <<>> when absent
    end,              \* apply_date_filters: the upper bound, <<>> when absent
    filtered,         \* apply_date_filters: the list returned
    filter_pc,        \* apply_date_filters: "start" before the call, "done" after
    start_date,       \* main: args.start_date, <<>> when the option is absent
    end_date,         \* main: args.end_date, <<>> when the option is absent
    main_all_coordinates, \* main: all_coordinates, as extract_coordinates returned it
    main_start,       \* main: start, <<>> for None
    main_end,         \* main: end, <<>> for None
    main_coordinates, \* main: coordinates after apply_date_filters
    main_pc,          \* main: "args", "dates", "filtered", "ValueError" or "SystemExit"
    NO_FLY_ZONES,     \* constants.NO_FLY_ZONES, the configured zones in order
    nfz_input,        \* filter_no_fly_zones: the list passed in
    nfz_filtered,     \* filter_no_fly_zones: the list of kept coordinates
    excluded_counts,  \* filter_no_fly_zones: the counts, a function of zone names
    nfz_pc,           \* filter_no_fly_zones: "start" before the call, "done" after
    coarsen_input,    \* coarsen_coordinates: the list passed in
    window_size,      \* coarsen_coordinates: the window size
    min_samples,      \* coarsen_coordinates: the least number of samples of a curve
    bridge_threshold_km, \* coarsen_coordinates: the bridge threshold
    day_log,          \* coarsen_coordinates: what each turn of the day loop saw and made
    coarsened,        \* coarsen_coordinates: the list returned
    coarsen_pc,       \* coarsen_coordinates: "start" before the call, "done" after
    reverse_geocoder, \* stats: the optional module, <<>> for None or <<its answers>>
    pycountry,        \* stats: the optional module, <<>> for None or <<its names>>
    stats_input,      \* compute_location_stats: the list passed in
    search_calls,     \* compute_location_stats: the keys looked up, in call order
    stats,            \* compute_location_stats: what the call returned
    printed,          \* print_stats: the lines printed
    stats_pc,         \* stats: "start", "computed" or "printed"
    commute_input,    \* the two filters: the list both orders start from
    commute_start,    \* the two filters: the lower bound of the date filter
    commute_end,      \* the two filters: the upper bound of the date filter
    date_then_zones,  \* the two filters: kept by the date filter, then the zone filter
    zones_once,       \* the two filters: what filter_no_fly_zones returned for the list
    zones_then_date,  \* the two filters: kept by the zone filter, then the date filter
    zones_twice,      \* the two filters: what filter_no_fly_zones returned for its own kept list
    commute_pc,       \* the two filters: "start", "date_first", "zones_first" or "done"
    haversine_points, \* the haversine formula: the two points, <<p, q>>
    vectorized,       \* the haversine formula: what haversine_vectorized returned
    pairwise,         \* the haversine formula: what _haversine_distance_km returned
    args,             \* main: the parsed command line
    stdin_isatty,     \* main: sys.stdin.isatty()
    input_file,       \* main: <<>> when the path does not exist, else <<what json.load gives>>
    run_entries,      \* main: entries
    run_all_coordinates,\* main: all_coordinates
    run_start,        \* main: start, <<>> for None
    run_end,          \* main: end, <<>> for None
    should_prompt,    \* main: should_prompt
    apply_coarsening, \* main: apply_coarsening
    exclude_no_fly_zones,\* main: exclude_no_fly_zones
    run_coordinates,  \* main: coordinates
    run_raw,          \* main: the list coarsen_coordinates was given
    run_trace,        \* main: the stages run so far, each with the size of its result
    run_message,      \* main: <<>> or <<the message of the SystemExit raised>>
    run_written,      \* main: <<>> or <<the path written>>
    run_pc            \* main: the stage reached, "SystemExit" or "ValueError"

seg_vars == <<coordinates, threshold_km, seg_result, seg_pc, distance_km>>

extract_vars == <<payload, records, all_coordinates, extract_pc>>

load_vars == <<top, entries, load_pc>>

filter_vars == <<filter_input, start, end, filtered, filter_pc>>

main_vars ==
    <<start_date, end_date, main_all_coordinates, main_start, main_end,
      main_coordinates, main_pc>>

nfz_vars == <<NO_FLY_ZONES, nfz_input, nfz_filtered, excluded_counts, nfz_pc>>

coarsen_vars ==
    <<coarsen_input, window_size, min_samples, bridge_threshold_km, day_log,
      coarsened, coarsen_pc>>

stats_vars ==
    <<reverse_geocoder, pycountry, stats_input, search_calls, stats, printed, stats_pc>>

commute_vars ==
    <<commute_input, commute_start, commute_end, date_then_zones, zones_once,
      zones_then_date, zones_twice, commute_pc>>

haversine_vars == <<haversine_points, vectorized, pairwise>>

run_vars ==
    <<args, stdin_isatty, input_file, run_entries, run_all_coordinates,
      run_start, run_end, should_prompt, apply_coarsening, exclude_no_fly_zones,
      run_coordinates, run_raw, run_trace, run_message, run_written, run_pc>>

vars ==
    <<seg_vars, extract_vars, load_vars, filter_vars, main_vars, nfz_vars,
      coarsen_vars, stats_vars, commute_vars, haversine_vars, run_vars>>

None == "None"

-----------------------------------------------------------------------------
(* Coordinate model: models.py *)

Coordinate(lat, lon, ts) == [latitude |-> lat, longitude |-> lon, timestamp |-> ts]

as_latlon(coord) == <<coord.latitude, coord.longitude>>

as_lonlat(coord) == <<coord.longitude, coord.latitude>>

(***************************************************************************)
(* Sample places, <<latitude, longitude>> in 1e-7 degree:                  *)
(*   1 (0,0)   2 (0,0.01)   3 (0,0.7)   4 (0.8993216059187302,0)          *)
(*   5 (10,10) 6 (25.19,-100)  7 (25.19,-98.012)                           *)
(*   8 (25.19,-97.71415464860331)  9 (25.19,-97.515)  10 (23.9,-100)       *)
(* Places 6..9 lie inside the contiguous-US box, the others outside.       *)
(***************************************************************************)
Places ==
    << <<0, 0>>, <<0, 100000>>, <<0, 7000000>>, <<8993216, 0>>,
       <<100000000, 100000000>>,
       <<251900000, -1000000000>>, <<251900000, -980120000>>,
       <<251900000, -977141546>>, <<251900000, -975150000>>,
       <<239000000, -1000000000>> >>

(***************************************************************************)
(* The values of the haversine formula (Earth radius 6371.0 km) between    *)
(* the sample places, floored to metres.  Place 1 to place 4 is exactly    *)
(* 100.0 km and place 6 to place 8 exactly 230.0 km in double precision.   *)
(***************************************************************************)
HaversineMetres ==
    << <<0, 1111, 77836, 100000, 1568520, 11012813, 10813235, 10783317, 10763311, 11023291>>,
       <<1111, 0, 76724, 100006, 1567740, 11013816, 10814239, 10784322, 10764315, 11024305>>,
       <<77836, 76724, 0, 126720, 1514899, 11083035, 10883532, 10853624, 10833623, 11094259>>,
       <<100000, 100006, 126720, 0, 1498880, 10969615, 10770250, 10740361, 10720372, 10982153>>,
       <<1568520, 1567740, 1514899, 1498880, 0, 11491899, 11301130, 11272463, 11253283, 11535849>>,
       <<11012813, 11013816, 11083035, 10969615, 11491899, 0, 200031, 230000, 250038, 143441>>,
       <<10813235, 10814239, 10883532, 10770250, 11301130, 200031, 0, 29969, 50008, 246992>>,
       <<10783317, 10784322, 10853624, 10740361, 11272463, 230000, 29969, 0, 20039, 272078>>,
       <<10763311, 10764315, 10833623, 10720372, 11253283, 250038, 50008, 20039, 0, 289389>>,
       <<11023291, 11024305, 11094259, 10982153, 11535849, 143441, 246992, 272078, 289389, 0>> >>

PlaceIndex(lat, lon) == CHOOSE i \in 1..Len(Places) : Places[i] = <<lat, lon>>

\* Between two points of one meridian the formula reduces to the arc
\* 6371.0 * (pi / 180) * |difference in degrees|: 11.1194927 mm for each
\* 1e-7 degree.  The value in whole metres, for latitudes less than ten
\* degrees apart.
meridian_metres(lat1, lat2) ==
    LET difference == IF lat2 >= lat1 THEN lat2 - lat1 ELSE lat1 - lat2
        thousands == difference \div 1000
        units == difference % 1000
    IN (thousands * 11119 + (thousands * 4927) \div 10000 + (units * 11119) \div 1000)
           \div 1000

\* One element of haversine_vectorized: the distance, in metres, from
\* (lat1, lon1) to (lat2, lon2).  The sample places take their values from
\* the table; two points of a meridian that holds no sample place take the arc.
haversine_metres(lat1, lon1, lat2, lon2) ==
    IF lon1 = lon2 /\ \A i \in 1..Len(Places) : Places[i][2] # lon1
    THEN meridian_metres(lat1, lat2)
    ELSE HaversineMetres[PlaceIndex(lat1, lon1)][PlaceIndex(lat2, lon2)]

\* haversine_vectorized over parallel arrays of equal length.
haversine_vectorized(lat1, lon1, lat2, lon2) ==
    [i \in 1..Len(lat1) |-> haversine_metres(lat1[i], lon1[i], lat2[i], lon2[i])]

-----------------------------------------------------------------------------
(* build_segments: preprocess.py *)

US_MIN_LAT == 245000000
US_MAX_LAT == 495000000
US_MIN_LON == -1250000000
US_MAX_LON == -660000000
US_FLIGHT_THRESHOLD_KM == 230
OTHER_FLIGHT_THRESHOLD_KM == 100

in_contiguous_us(coordinate) ==
    /\ US_MIN_LAT <= coordinate.latitude /\ coordinate.latitude <= US_MAX_LAT
    /\ US_MIN_LON <= coordinate.longitude /\ coordinate.longitude <= US_MAX_LON

\* distances = haversine_vectorized(coords[:-1], coords[1:]); distances[i] is
\* the distance between the i-th and the (i+1)-th coordinate (1-based).
consecutive_distances(coord_list) ==
    haversine_vectorized(
        [i \in 1..Len(coord_list) - 1 |-> coord_list[i].latitude],
        [i \in 1..Len(coord_list) - 1 |-> coord_list[i].longitude],
        [i \in 1..Len(coord_list) - 1 |-> coord_list[i + 1].latitude],
        [i \in 1..Len(coord_list) - 1 |-> coord_list[i + 1].longitude])

\* break_indices = np.where(distances > threshold_km)[0], ascending.
RECURSIVE where_greater(_, _, _)
where_greater(distances, thr_km, i) ==
    IF i > Len(distances) THEN <<>>
    ELSE IF distances[i] > thr_km * 1000
         THEN <<i>> \o where_greater(distances, thr_km, i + 1)
         ELSE where_greater(distances, thr_km, i + 1)

\* Mutant of break_indices_of: a pair exactly at the threshold counts as a break.
RECURSIVE where_at_least(_, _, _)
where_at_least(distances, thr_km, i) ==
    IF i > Len(distances) THEN <<>>
    ELSE IF distances[i] >= thr_km * 1000
         THEN <<i>> \o where_at_least(distances, thr_km, i + 1)
         ELSE where_at_least(distances, thr_km, i + 1)

break_indices_at_least(distances, thr_km) == where_at_least(distances, thr_km, 1)

break_indices_of(distances, thr_km) == where_greater(distances, thr_km, 1)

\* Mutant of keep_mask: a pair exactly at the threshold is not kept.
keep_mask_strict(distances, thr_km) ==
    <<TRUE>> \o [i \in 1..Len(distances) |-> distances[i] < thr_km * 1000]

\* mask = np.insert(distances <= threshold_km, 0, True)
keep_mask(distances, thr_km) ==
    <<TRUE>> \o [i \in 1..Len(distances) |-> distances[i] <= thr_km * 1000]

\* Mutant of close_segment: a single-point accumulator is kept.
close_segment_keep_single(segments_coords, current_segment) ==
    IF Len(current_segment) > 0
    THEN Append(segments_coords, current_segment)
    ELSE segments_coords

\* if len(current_segment) > 1: segments_coords.append(current_segment)
close_segment(segments_coords, current_segment) ==
    IF Len(current_segment) > 1
    THEN Append(segments_coords, current_segment)
    ELSE segments_coords

\* The walk over zip(mask, coord_list) from position k on, then the final flush.
RECURSIVE walk_segments(_, _, _, _, _)
walk_segments(mask, coord_list, k, segments_coords, current_segment) ==
    IF k > Len(coord_list)
    THEN close_segment(segments_coords, current_segment)
    ELSE IF mask[k]
         THEN walk_segments(mask, coord_list, k + 1, segments_coords,
                            Append(current_segment, coord_list[k]))
         ELSE walk_segments(mask, coord_list, k + 1,
                            close_segment(segments_coords, current_segment),
                            <<coord_list[k]>>)

\* Mutant of flight_threshold_km: one endpoint inside the box is enough.
flight_threshold_km_either(origin, dest) ==
    IF in_contiguous_us(origin) \/ in_contiguous_us(dest)
    THEN US_FLIGHT_THRESHOLD_KM
    ELSE OTHER_FLIGHT_THRESHOLD_KM

\* threshold = 230.0 if in_contiguous_us(origin) and in_contiguous_us(dest) else 100.0
flight_threshold_km(origin, dest) ==
    IF in_contiguous_us(origin) /\ in_contiguous_us(dest)
    THEN US_FLIGHT_THRESHOLD_KM
    ELSE OTHER_FLIGHT_THRESHOLD_KM

\* if distance_km >= threshold: flights.append((origin, dest))
is_flight(distance, origin, dest) ==
    distance >= flight_threshold_km(origin, dest) * 1000

\* The loop over break_indices from its j-th element on.
RECURSIVE collect_flights(_, _, _, _, _)
collect_flights(break_indices, coord_list, distances, j, flights) ==
    IF j > Len(break_indices) THEN flights
    ELSE LET idx == break_indices[j] IN
         IF idx + 1 > Len(coord_list)
         THEN collect_flights(break_indices, coord_list, distances, j + 1, flights)
         ELSE collect_flights(break_indices, coord_list, distances, j + 1,
                  IF is_flight(distances[idx], coord_list[idx], coord_list[idx + 1])
                  THEN Append(flights, <<coord_list[idx], coord_list[idx + 1]>>)
                  ELSE flights)

SegmentsResult(status, segments, segments_coords, flights) ==
    [status |-> status, segments |-> segments,
     segments_coords |-> segments_coords, flights |-> flights]

\* The body of build_segments after the length guard.  With no coordinate at
\* all, np.array([]) is one-dimensional and coords_array[:-1, 0] raises.
build_segments_body(coord_list, thr_km) ==
    IF Len(coord_list) = 0
    THEN SegmentsResult("IndexError", <<>>, <<>>, <<>>)
    ELSE LET distances == consecutive_distances(coord_list)
             break_indices == break_indices_of(distances, thr_km)
             mask == keep_mask(distances, thr_km)
             segments_coords == walk_segments(mask, coord_list, 1, <<>>, <<>>)
             flights == collect_flights(break_indices, coord_list, distances, 1, <<>>)
             segments == [s \in 1..Len(segments_coords) |->
                            [p \in 1..Len(segments_coords[s]) |->
                                as_lonlat(segments_coords[s][p])]]
         IN SegmentsResult("ok", segments, segments_coords, flights)

\* Mutant of build_segments: the length guard is missing.
build_segments_unguarded(coords, thr_km) == build_segments_body(coords, thr_km)

build_segments(coords, thr_km) ==
    IF Len(coords) < 2
    THEN SegmentsResult("ok", <<>>, <<>>, <<>>)
    ELSE build_segments_body(coords, thr_km)

\* The sum of the distances the mask selects, from the i-th on.
RECURSIVE sum_where(_, _, _)
sum_where(distances, valid, i) ==
    IF i > Len(distances) THEN 0
    ELSE (IF valid[i] THEN distances[i] ELSE 0) + sum_where(distances, valid, i + 1)

\* Mutant of valid_distances: a pair exactly at the threshold is left out.
valid_distances_strict(distances, thr_km) ==
    [i \in 1..Len(distances) |-> distances[i] < thr_km * 1000]

\* valid = distances <= threshold_km
valid_distances(distances, thr_km) ==
    [i \in 1..Len(distances) |-> distances[i] <= thr_km * 1000]

\* compute_total_distance_km (stats.py), in metres: distances[valid].sum()
compute_total_distance_km(coord_list, thr_km) ==
    IF Len(coord_list) < 2 THEN 0
    ELSE LET distances == consecutive_distances(coord_list) IN
         sum_where(distances, valid_distances(distances, thr_km), 1)

-----------------------------------------------------------------------------
(* parse_timestamp: time_utils.py *)

(***************************************************************************)
(* A string is a sequence of tokens.  A raw timestamp is a date-time       *)
(* literal optionally followed by "Z" or a UTC offset, or a run of digits. *)
(* The tables give the literals of the model their values in milliseconds. *)
(***************************************************************************)
IsoDateTimes ==
    [lit \in {"1970-01-01T00:00:03", "1970-01-01T00:00:05",
              "1970-01-01T01:00:05", "1970-01-01T01:00:07"} |->
        CASE lit = "1970-01-01T00:00:03" -> 3000
          [] lit = "1970-01-01T00:00:05" -> 5000
          [] lit = "1970-01-01T01:00:05" -> 3605000
          [] lit = "1970-01-01T01:00:07" -> 3607000]

UtcOffsets == [lit \in {"+00:00", "+01:00"} |->
                  IF lit = "+00:00" THEN 0 ELSE 3600000]

DigitStrings ==
    [lit \in {"5000", "7000", "118800000", "205200000"} |->
        CASE lit = "5000" -> 5000
          [] lit = "7000" -> 7000
          [] lit = "118800000" -> 118800000
          [] lit = "205200000" -> 205200000]

\* The UTC offset of the host's local zone, which astimezone() gives a
\* date-time that carries none.
LOCAL_UTC_OFFSET_MS == 3600000

Parsed(v) == [ok |-> TRUE, value |-> v]

ParseError == [ok |-> FALSE]

\* raw.replace("Z", "+00:00")
replace_z(raw) == [i \in 1..Len(raw) |-> IF raw[i] = "Z" THEN "+00:00" ELSE raw[i]]

\* datetime.fromisoformat(text).astimezone(): the instant, in ms since the epoch.
fromisoformat(text) ==
    IF Len(text) = 1 /\ text[1] \in DOMAIN IsoDateTimes
    THEN Parsed(IsoDateTimes[text[1]] - LOCAL_UTC_OFFSET_MS)
    ELSE IF Len(text) = 2 /\ text[1] \in DOMAIN IsoDateTimes
                          /\ text[2] \in DOMAIN UtcOffsets
         THEN Parsed(IsoDateTimes[text[1]] - UtcOffsets[text[2]])
         ELSE ParseError

\* datetime.fromtimestamp(int(raw) / 1000).astimezone()
fromtimestamp_ms(raw) ==
    IF Len(raw) = 1 /\ raw[1] \in DOMAIN DigitStrings
    THEN Parsed(DigitStrings[raw[1]])
    ELSE ParseError

parse_timestamp(raw) ==
    LET iso == fromisoformat(replace_z(raw)) IN
    IF iso.ok THEN iso ELSE fromtimestamp_ms(raw)

-----------------------------------------------------------------------------
(* parse_geo_point and extract_coordinates: preprocess.py *)

\* float(text), in units of 1e-7 degree.  Every numeric literal of the model
\* holds a decimal point, so no two of them concatenate to a number.
FloatLiterals ==
    [lit \in {"0.0", "0.7", "10.0"} |->
        CASE lit = "0.0" -> 0 [] lit = "0.7" -> 7000000 [] lit = "10.0" -> 100000000]

float(text) ==
    IF Len(text) = 1 /\ text[1] \in DOMAIN FloatLiterals
    THEN Parsed(FloatLiterals[text[1]])
    ELSE ParseError

\* point_str.replace("geo:", "")
strip_geo(point_str) == SelectSeq(point_str, LAMBDA tok : tok # "geo:")

\* The position of the first "," of text, 0 when it has none.
first_comma(text) ==
    IF \E i \in 1..Len(text) : text[i] = ","
    THEN CHOOSE i \in 1..Len(text) :
             text[i] = "," /\ \A j \in 1..(i - 1) : text[j] # ","
    ELSE 0

\* lat_str, lon_str = text.split(",", 1); return float(lat_str), float(lon_str)
parse_geo_point(point_str) ==
    LET text == strip_geo(point_str)
        c == first_comma(text)
    IN IF c = 0
       THEN ParseError
       ELSE LET lat == float(SubSeq(text, 1, c - 1))
                lon == float(SubSeq(text, c + 1, Len(text)))
            IN IF lat.ok /\ lon.ok THEN Parsed(<<lat.value, lon.value>>) ELSE ParseError

\* An entry is a function from the keys it holds to their values.
has_key(entry, key) == key \in DOMAIN entry

\* entry.get(key) is neither None nor empty.
truthy(entry, key) == has_key(entry, key) /\ entry[key] # <<>>

\* raw_ts = entry.get("timestamp") or entry.get("timestampMs")
flat_raw_ts(entry) ==
    IF truthy(entry, "timestamp") THEN entry["timestamp"]
    ELSE IF truthy(entry, "timestampMs") THEN entry["timestampMs"]
    ELSE <<>>

\* What one entry does to the list: [ok, coords], coords the coordinates it
\* appends, ok FALSE when reading it raises.
Appended(coords) == [ok |-> TRUE, coords |-> coords]

\* The loop over entry["timelinePath"] from its k-th element on.
RECURSIVE timeline_points(_, _, _, _)
timeline_points(path, timestamp, k, coords) ==
    IF k > Len(path) THEN Appended(coords)
    ELSE IF ~truthy(path[k], "point")
         THEN timeline_points(path, timestamp, k + 1, coords)
         ELSE LET geo == parse_geo_point(path[k]["point"]) IN
              IF ~geo.ok THEN ParseError
              ELSE timeline_points(path, timestamp, k + 1,
                       Append(coords, Coordinate(geo.value[1], geo.value[2], timestamp)))

flat_entry(entry) ==
    LET raw_ts == flat_raw_ts(entry) IN
    IF raw_ts = <<>> THEN Appended(<<>>)
    ELSE LET timestamp == parse_timestamp(raw_ts) IN
         IF ~timestamp.ok THEN ParseError
         ELSE Appended(<<Coordinate(entry["latitudeE7"], entry["longitudeE7"],
                                    timestamp.value)>>)

timeline_entry(entry) ==
    IF ~truthy(entry, "startTime") THEN Appended(<<>>)
    ELSE LET timestamp == parse_timestamp(entry["startTime"]) IN
         IF ~timestamp.ok THEN ParseError
         ELSE timeline_points(entry["timelinePath"], timestamp.value, 1, <<>>)

visit_entry(entry) ==
    IF ~truthy(entry, "startTime") THEN Appended(<<>>)
    ELSE LET timestamp == parse_timestamp(entry["startTime"]) IN
         IF ~timestamp.ok THEN ParseError
         ELSE IF ~truthy(entry["visit"]["topCandidate"], "placeLocation")
              THEN Appended(<<>>)
              ELSE LET geo == parse_geo_point(
                                  entry["visit"]["topCandidate"]["placeLocation"]) IN
                   IF ~geo.ok THEN ParseError
                   ELSE Appended(<<Coordinate(geo.value[1], geo.value[2],
                                              timestamp.value)>>)

\* Mutant of entry_coordinates: the timelinePath shape is tried first.
entry_coordinates_timeline_first(entry) ==
    IF has_key(entry, "timelinePath")
    THEN timeline_entry(entry)
    ELSE IF has_key(entry, "latitudeE7") /\ has_key(entry, "longitudeE7")
         THEN flat_entry(entry)
         ELSE IF has_key(entry, "visit") /\ has_key(entry["visit"], "topCandidate")
              THEN visit_entry(entry)
              ELSE Appended(<<>>)

\* The if / elif chain of the loop body.
entry_coordinates(entry) ==
    IF has_key(entry, "latitudeE7") /\ has_key(entry, "longitudeE7")
    THEN flat_entry(entry)
    ELSE IF has_key(entry, "timelinePath")
         THEN timeline_entry(entry)
         ELSE IF has_key(entry, "visit") /\ has_key(entry["visit"], "topCandidate")
              THEN visit_entry(entry)
              ELSE Appended(<<>>)

\* Mutant of sort_insert: an equal timestamp goes in front.
RECURSIVE sort_insert_front(_, _)
sort_insert_front(sorted_list, coord) ==
    IF sorted_list = <<>> THEN <<coord>>
    ELSE IF sorted_list[Len(sorted_list)].timestamp < coord.timestamp
         THEN Append(sorted_list, coord)
         ELSE Append(sort_insert_front(SubSeq(sorted_list, 1, Len(sorted_list) - 1), coord),
                     sorted_list[Len(sorted_list)])

\* coord placed after every element whose timestamp is not greater.
RECURSIVE sort_insert(_, _)
sort_insert(sorted_list, coord) ==
    IF sorted_list = <<>> THEN <<coord>>
    ELSE IF sorted_list[Len(sorted_list)].timestamp <= coord.timestamp
         THEN Append(sorted_list, coord)
         ELSE Append(sort_insert(SubSeq(sorted_list, 1, Len(sorted_list) - 1), coord),
                     sorted_list[Len(sorted_list)])

\* sorted(records, key=lambda coord: coord.timestamp): a stable sort.
RECURSIVE sorted_by_timestamp(_)
sorted_by_timestamp(list) ==
    IF list = <<>> THEN <<>>
    ELSE sort_insert(sorted_by_timestamp(SubSeq(list, 1, Len(list) - 1)),
                     list[Len(list)])

ExtractResult(status, recs, value) ==
    [status |-> status, records |-> recs, value |-> value]

\* The loop with an entry that raises skipped instead of ending the call.
RECURSIVE extract_from_skipping(_, _, _)
extract_from_skipping(entry_list, i, recs) ==
    IF i > Len(entry_list)
    THEN ExtractResult("returned", recs, sorted_by_timestamp(recs))
    ELSE LET got == entry_coordinates(entry_list[i]) IN
         extract_from_skipping(entry_list, i + 1,
                               IF got.ok THEN recs \o got.coords ELSE recs)

\* The loop over the payload from its i-th entry on, then the sort.  An
\* error raised by an entry ends the call: nothing is returned.
RECURSIVE extract_from(_, _, _)
extract_from(entry_list, i, recs) ==
    IF i > Len(entry_list)
    THEN ExtractResult("returned", recs, sorted_by_timestamp(recs))
    ELSE LET got == entry_coordinates(entry_list[i]) IN
         IF ~got.ok THEN ExtractResult("ValueError", recs, <<>>)
         ELSE extract_from(entry_list, i + 1, recs \o got.coords)

\* Mutant of extract_coordinates: errors are recovered per entry.
extract_coordinates_skipping(entry_list) == extract_from_skipping(entry_list, 1, <<>>)

extract_coordinates(entry_list) == extract_from(entry_list, 1, <<>>)

-----------------------------------------------------------------------------
(* load_takeout_payload: io.py *)

\* A decoded JSON value: an object (a function from its keys), a list, or
\* anything else (a string, a number, true, false, null).
JsonObject(obj) == [kind |-> "object", value |-> obj]

JsonList(items) == [kind |-> "list", value |-> items]

JsonScalar == [kind |-> "scalar", value |-> <<>>]

Yielded(items) == [status |-> "exhausted", entries |-> items]

\* raise ValueError("Unrecognised Google Takeout payload structure in ...")
Unrecognised == [status |-> "ValueError", entries |-> <<>>]

\* Mutant of load_takeout_payload: an unrecognised value yields nothing, silently.
load_takeout_payload_silent(decoded) ==
    IF decoded.kind = "object" /\ "locations" \in DOMAIN decoded.value
    THEN Yielded(decoded.value["locations"])
    ELSE IF decoded.kind = "object" /\ "timelinePath" \in DOMAIN decoded.value
         THEN Yielded(<<decoded.value>>)
         ELSE Yielded(IF decoded.kind = "list" THEN decoded.value ELSE <<>>)

\* list(load_takeout_payload(path)), decoded being what json.load returned.
load_takeout_payload(decoded) ==
    IF decoded.kind = "object" /\ "locations" \in DOMAIN decoded.value
    THEN Yielded(decoded.value["locations"])
    ELSE IF decoded.kind = "object" /\ "timelinePath" \in DOMAIN decoded.value
         THEN Yielded(<<decoded.value>>)
         ELSE IF decoded.kind = "list"
              THEN Yielded(decoded.value)
              ELSE Unrecognised

-----------------------------------------------------------------------------
(* within_range: time_utils.py; apply_date_filters: preprocess.py *)

\* An optional bound is <<>> (None) or <<t>>.  A list object is its identity
\* and its items.
ListObject(oid, items) == [oid |-> oid, items |-> items]

\* Mutant of within_range: the upper bound is exclusive.
within_range_end_exclusive(ts, lower, upper) ==
    IF lower # <<>> /\ ts < lower[1] THEN FALSE
    ELSE IF upper # <<>> /\ ts >= upper[1] THEN FALSE
    ELSE TRUE

within_range(ts, lower, upper) ==
    IF lower # <<>> /\ ts < lower[1] THEN FALSE
    ELSE IF upper # <<>> /\ ts > upper[1] THEN FALSE
    ELSE TRUE

\* Mutant of apply_date_filters: the list is cut at the first coordinate in
\* range and what follows it is kept unchecked.
apply_date_filters_from_first(coords, lower, upper) ==
    LET hits == {k \in 1..Len(coords.items) :
                    within_range(coords.items[k].timestamp, lower, upper)}
    IN IF hits = {} THEN ListObject(coords.oid + 1, <<>>)
       ELSE ListObject(coords.oid + 1,
                       SubSeq(coords.items, CHOOSE k \in hits : \A j \in hits : k <= j,
                              Len(coords.items)))

\* Both branches build a list of their own, list(coordinates) and the
\* comprehension: an object whose identity is not the argument's.
apply_date_filters(coords, lower, upper) ==
    IF lower = <<>> /\ upper = <<>>
    THEN ListObject(coords.oid + 1, coords.items)
    ELSE ListObject(coords.oid + 1,
                    SelectSeq(coords.items,
                              LAMBDA coord : within_range(coord.timestamp, lower, upper)))

-----------------------------------------------------------------------------
(* parse_date_string: time_utils.py; the date options of main: cli.py *)

\* The date literals of the model and the day each names, counted from
\* 1970-01-01 as day 0: those "%Y-%m-%d" parses and those "%Y%m%d" parses.
DashedDates == [lit \in {"1970-01-02", "1970-01-03"} |->
                   IF lit = "1970-01-02" THEN 1 ELSE 2]

CompactDates == [lit \in {"19700102", "19700103"} |->
                    IF lit = "19700102" THEN 1 ELSE 2]

\* date_str.strip(): leading and trailing blanks removed.
RECURSIVE lstrip(_)
lstrip(text) ==
    IF text # <<>> /\ Head(text) = " " THEN lstrip(Tail(text)) ELSE text

RECURSIVE rstrip(_)
rstrip(text) ==
    IF text # <<>> /\ text[Len(text)] = " "
    THEN rstrip(SubSeq(text, 1, Len(text) - 1))
    ELSE text

strip(text) == rstrip(lstrip(text))

\* datetime.strptime(cleaned, fmt).replace(tzinfo=LOCAL_TZ): the instant of
\* 00:00:00 local time of the day named, in ms since the epoch.
local_midnight(day) == day * 86400000 - LOCAL_UTC_OFFSET_MS

\* The two formats are tried in order; ParseError stands for the ValueError
\* raised when neither fits.
parse_date_string(date_str) ==
    LET cleaned == strip(date_str) IN
    IF Len(cleaned) = 1 /\ cleaned[1] \in DOMAIN DashedDates
    THEN Parsed(local_midnight(DashedDates[cleaned[1]]))
    ELSE IF Len(cleaned) = 1 /\ cleaned[1] \in DOMAIN CompactDates
         THEN Parsed(local_midnight(CompactDates[cleaned[1]]))
         ELSE ParseError

\* An option is <<>> (None) or <<text>>.  parse_date_string(arg) if arg else
\* None: None and the empty string give None.
date_option(arg) ==
    IF arg = <<>> \/ arg[1] = <<>>
    THEN [ok |-> TRUE, value |-> <<>>]
    ELSE LET parsed == parse_date_string(arg[1]) IN
         IF parsed.ok THEN [ok |-> TRUE, value |-> <<parsed.value>>]
         ELSE [ok |-> FALSE, value |-> <<>>]

-----------------------------------------------------------------------------
(* NoFlyZone: models.py; NO_FLY_ZONES: constants.py; filter_no_fly_zones:   *)
(* preprocess.py                                                           *)

NoFlyZone(name, min_lat, max_lat, min_lon, max_lon) ==
    [name |-> name, min_lat |-> min_lat, min_lon |-> min_lon,
     max_lat |-> max_lat, max_lon |-> max_lon]

\* The zones constants.py configures, bounds in 1e-7 degree.
ShippedZones ==
    << NoFlyZone("Chicago & Evanston", 416000000, 421000000, -879500000, -875000000),
       NoFlyZone("Beijing", 394000000, 403000000, 1155000000, 1175000000) >>

\* Mutant of contains: the bounds are exclusive.
contains_exclusive(zone, latitude, longitude) ==
    /\ zone.min_lat < latitude /\ latitude < zone.max_lat
    /\ zone.min_lon < longitude /\ longitude < zone.max_lon

\* NoFlyZone.contains
contains(zone, latitude, longitude) ==
    /\ zone.min_lat <= latitude /\ latitude <= zone.max_lat
    /\ zone.min_lon <= longitude /\ longitude <= zone.max_lon

\* The first zone of NO_FLY_ZONES containing the coordinate, <<>> for None.
locate_no_fly_zone(coordinate) ==
    LET hits == {k \in 1..Len(NO_FLY_ZONES) :
                    contains(NO_FLY_ZONES[k], coordinate.latitude, coordinate.longitude)}
    IN IF hits = {} THEN <<>>
       ELSE << NO_FLY_ZONES[CHOOSE k \in hits : \A j \in hits : k <= j] >>

\* A dict of counts is a function of the names it holds.
NoCounts == [name \in {} |-> 0]

\* excluded_counts[name] = excluded_counts.get(name, 0) + 1
count_one_more(counts, name) ==
    [n \in DOMAIN counts \cup {name} |->
        IF n = name
        THEN (IF name \in DOMAIN counts THEN counts[name] ELSE 0) + 1
        ELSE counts[n]]

\* The loop of filter_no_fly_zones from the i-th coordinate on.
RECURSIVE filter_zones_from(_, _, _, _)
filter_zones_from(coords, i, kept, counts) ==
    IF i > Len(coords) THEN [filtered |-> kept, excluded_counts |-> counts]
    ELSE LET zone == locate_no_fly_zone(coords[i]) IN
         IF zone # <<>>
         THEN filter_zones_from(coords, i + 1, kept, count_one_more(counts, zone[1].name))
         ELSE filter_zones_from(coords, i + 1, Append(kept, coords[i]), counts)

filter_no_fly_zones(coords) == filter_zones_from(coords, 1, <<>>, NoCounts)

\* What the function returns for an empty list.
NoResult == [filtered |-> <<>>, excluded_counts |-> NoCounts]

-----------------------------------------------------------------------------
(* coarsen_coordinates: coarsen.py *)

(***************************************************************************)
(* In coarsening, latitudes and longitudes are exact fractions of a degree, *)
(* <<numerator, denominator>> in lowest terms with a positive denominator,  *)
(* and the arithmetic of the code is carried out exactly.  The mean of a    *)
(* window, np.interp and the bridge formula are then the values the code    *)
(* rounds to; what np.polyfit and np.polyval return is near the exact       *)
(* polynomial, not on it, which bridge_decisions accounts for.              *)
(***************************************************************************)
RECURSIVE gcd(_, _)
gcd(a, b) == IF b = 0 THEN a ELSE gcd(b, a % b)

abs(x) == IF x < 0 THEN -x ELSE x

Rat(n, d) ==
    LET g == gcd(abs(n), abs(d))
        sign == IF d < 0 THEN -1 ELSE 1
    IN <<(sign * n) \div g, abs(d) \div g>>

RatAdd(a, b) == Rat(a[1] * b[2] + b[1] * a[2], a[2] * b[2])

RatSub(a, b) == Rat(a[1] * b[2] - b[1] * a[2], a[2] * b[2])

RatMul(a, b) == Rat(a[1] * b[1], a[2] * b[2])

RatDiv(a, b) == Rat(a[1] * b[2], a[2] * b[1])

RatAbs(a) == <<abs(a[1]), a[2]>>

RatLeq(a, b) == a[1] * b[2] <= b[1] * a[2]

\* A comprehension or an array expression builds all its elements at once:
\* the sequence of the values of f.
RECURSIVE listed_from(_, _, _)
listed_from(f, k, count) ==
    IF k > count THEN <<>> ELSE <<f[k]>> \o listed_from(f, k + 1, count)

listed(f, count) == listed_from(f, 1, count)

RECURSIVE RatSum(_, _)
RatSum(values, k) ==
    IF k > Len(values) THEN Rat(0, 1) ELSE RatAdd(values[k], RatSum(values, k + 1))

\* np.mean
mean(values) == RatDiv(RatSum(values, 1), Rat(Len(values), 1))

_mean_lat_lon(coord_list) ==
    << mean(listed([k \in 1..Len(coord_list) |-> coord_list[k].latitude], Len(coord_list))),
       mean(listed([k \in 1..Len(coord_list) |-> coord_list[k].longitude], Len(coord_list))) >>

min(a, b) == IF a <= b THEN a ELSE b

max(a, b) == IF a >= b THEN a ELSE b

\* for index in range(0, len(coordinates), window_size), index counted from 1
\* here: the anchors of the windows from index on.
RECURSIVE _generate_anchor_points(_, _, _)
_generate_anchor_points(coord_list, size, index) ==
    IF index > Len(coord_list) THEN <<>>
    ELSE <<_mean_lat_lon(SubSeq(coord_list, index,
                                min(index + size - 1, Len(coord_list))))>>
         \o _generate_anchor_points(coord_list, size, index + size)

\* np.linspace(0.0, 1.0, count)[k - 1], for count of two or more
linspace(count, k) == Rat(k - 1, count - 1)

\* np.interp(x, anchor_positions, values) for two anchors, at 0 and 1
interp(values, x) == RatAdd(values[1], RatMul(RatSub(values[2], values[1]), x))

\* The polynomial of degree count - 1 through the anchors, at x: its k-th
\* Lagrange basis polynomial is the product over l # k of
\* (x - position l) / (position k - position l).
RECURSIVE lagrange_basis(_, _, _, _)
lagrange_basis(count, k, x, l) ==
    IF l > count THEN Rat(1, 1)
    ELSE IF l = k THEN lagrange_basis(count, k, x, l + 1)
    ELSE RatMul(RatDiv(RatSub(x, linspace(count, l)),
                       RatSub(linspace(count, k), linspace(count, l))),
                lagrange_basis(count, k, x, l + 1))

\* np.polyval(np.polyfit(anchor_positions, values, degree), x): with three or
\* four anchors the degree min(3, anchor_count - 1) is anchor_count - 1 and
\* the least-squares fit is the polynomial through the anchors.  Days of five
\* anchors or more are beyond the lists of the model.
polyfit_polyval(values, x) ==
    RatSum(listed([k \in 1..Len(values) |->
                    RatMul(values[k], lagrange_basis(Len(values), k, x, 1))],
                Len(values)), 1)

\* Mutant of sample_count_of: min_samples samples, however many anchors.
sample_count_min_samples(anchors, samples) == samples

\* sample_count = max(min_samples, anchor_count)
sample_count_of(anchors, samples) == max(samples, Len(anchors))

\* The (latitude, longitude) rows of the array _evaluate_curve returns.
_evaluate_curve(anchors, samples) ==
    LET anchor_count == Len(anchors)
        sample_count == sample_count_of(anchors, samples)
        latitudes == listed([k \in 1..anchor_count |-> anchors[k][1]], anchor_count)
        longitudes == listed([k \in 1..anchor_count |-> anchors[k][2]], anchor_count)
    IN IF anchor_count = 1 THEN <<anchors[1]>>
       ELSE IF anchor_count >= 3
       THEN listed([j \in 1..sample_count |->
                     << polyfit_polyval(latitudes, linspace(sample_count, j)),
                        polyfit_polyval(longitudes, linspace(sample_count, j)) >>],
                 sample_count)
       ELSE listed([j \in 1..sample_count |->
                     << interp(latitudes, linspace(sample_count, j)),
                        interp(longitudes, linspace(sample_count, j)) >>],
                 sample_count)

\* Mutant of local_day: the day in UTC.
local_day_utc(ts) == ts \div 86400000

\* coordinate.timestamp.astimezone(LOCAL_TZ).date()
local_day(ts) == (ts + LOCAL_UTC_OFFSET_MS) \div 86400000

\* 12:00:00 local time of the day
_midday_timestamp(day) == local_midnight(day) + 43200000

_coarsen_single_day(day, coord_list, size, samples) ==
    LET sorted_coords == sorted_by_timestamp(coord_list)
        anchors == _generate_anchor_points(sorted_coords, size, 1)
        curve_points == _evaluate_curve(anchors, samples)
        timestamp == _midday_timestamp(day)
    IN listed([k \in 1..Len(curve_points) |->
                Coordinate(curve_points[k][1], curve_points[k][2], timestamp)],
            Len(curve_points))

\* The haversine distance in km.  Between two points of one meridian, or two
\* points of the equator, the formula reduces to the arc 6371 * (pi / 180) *
\* |difference in degrees|, 111.19492664... km a degree, carried here as
\* 111.195; the points of a list of the model lie on one meridian or on the
\* equator, and no distance of the model is within a metre of a threshold
\* without being equal to it.
_haversine_distance_km(coord_a, coord_b) ==
    LET degrees == IF coord_a.longitude = coord_b.longitude
                   THEN RatAbs(RatSub(coord_b.latitude, coord_a.latitude))
                   ELSE RatAbs(RatSub(coord_b.longitude, coord_a.longitude))
    IN RatMul(Rat(111195, 1000), degrees)

\* Mutant of _build_bridge: the far end is one of the bridge points.
_build_bridge_to_end(from, to, segments) ==
    IF segments < 2 THEN <<>>
    ELSE listed([index \in 1..segments |->
                  Coordinate(
                      RatAdd(from.latitude,
                             RatMul(RatSub(to.latitude, from.latitude),
                                    Rat(index, segments))),
                      RatAdd(from.longitude,
                             RatMul(RatSub(to.longitude, from.longitude),
                                    Rat(index, segments))),
                      to.timestamp)],
              segments)

\* for index in range(1, segments): the point at index / segments of the way.
_build_bridge(from, to, segments) ==
    IF segments < 2 THEN <<>>
    ELSE listed([index \in 1..(segments - 1) |->
                  Coordinate(
                      RatAdd(from.latitude,
                             RatMul(RatSub(to.latitude, from.latitude),
                                    Rat(index, segments))),
                      RatAdd(from.longitude,
                             RatMul(RatSub(to.longitude, from.longitude),
                                    Rat(index, segments))),
                      to.timestamp)],
              segments - 1)

\* Mutant of bridge_decisions: a distance equal to the threshold is no bridge.
bridge_decisions_strict(tail, head, threshold, fitted) ==
    LET distance == _haversine_distance_km(tail, head) IN
    IF fitted /\ distance = Rat(threshold, 1) THEN {TRUE, FALSE}
    ELSE {RatLeq(distance, Rat(threshold, 1)) /\ distance # Rat(threshold, 1)}

\* distance <= bridge_threshold_km.  When an end of the pair comes out of
\* polyfit and the exact distance equals the threshold, rounding decides, and
\* either outcome is possible.
bridge_decisions(tail, head, threshold, fitted) ==
    LET distance == _haversine_distance_km(tail, head) IN
    IF fitted /\ distance = Rat(threshold, 1) THEN {TRUE, FALSE}
    ELSE {RatLeq(distance, Rat(threshold, 1))}

\* daily_groups: each local day of the input with its coordinates in input order.
daily_groups_of(coord_list) ==
    [day \in {local_day(coord_list[k].timestamp) : k \in 1..Len(coord_list)} |->
        SelectSeq(coord_list, LAMBDA coord : local_day(coord.timestamp) = day)]

\* Mutant of sorted_days: the latest day first.
RECURSIVE sorted_days_descending(_)
sorted_days_descending(days) ==
    IF days = {} THEN <<>>
    ELSE LET last == CHOOSE d \in days : \A e \in days : d >= e
         IN <<last>> \o sorted_days_descending(days \ {last})

\* sorted(daily_groups)
RECURSIVE sorted_days(_)
sorted_days(days) ==
    IF days = {} THEN <<>>
    ELSE LET first == CHOOSE d \in days : \A e \in days : d <= e
         IN <<first>> \o sorted_days(days \ {first})

\* What one turn of the day loop leaves in the log: the day, its anchors, its
\* points and the bridge put before them.
DayEntry(day, anchors, day_points, bridge) ==
    [day |-> day, anchors |-> anchors, day_points |-> day_points, bridge |-> bridge]

CoarsenResult(value, log) == [coarsened |-> value, day_log |-> log]

\* The day loop from the i-th day on: the set of results it can end with.
RECURSIVE coarsen_days(_, _, _, _, _, _, _, _)
coarsen_days(groups, days, i, out, log, size, samples, threshold) ==
    IF i > Len(days) THEN {CoarsenResult(out, log)}
    ELSE
        LET day == days[i]
            anchors == _generate_anchor_points(sorted_by_timestamp(groups[day]), size, 1)
            day_points == _coarsen_single_day(day, groups[day], size, samples)
        IN IF log = <<>>
           THEN coarsen_days(groups, days, i + 1, out \o day_points,
                             Append(log, DayEntry(day, anchors, day_points, <<>>)),
                             size, samples, threshold)
           ELSE
               LET previous == log[Len(log)]
                   previous_tail == previous.day_points[Len(previous.day_points)]
                   fitted == Len(anchors) >= 3 \/ Len(previous.anchors) >= 3
                   bridge == _build_bridge(previous_tail, day_points[1], 6)
               IN UNION {
                      coarsen_days(groups, days, i + 1,
                                   out \o (IF bridged THEN bridge ELSE <<>>) \o day_points,
                                   Append(log, DayEntry(day, anchors, day_points,
                                                        IF bridged THEN bridge ELSE <<>>)),
                                   size, samples, threshold) :
                      bridged \in bridge_decisions(previous_tail, day_points[1],
                                                   threshold, fitted)}

\* The results coarsen_coordinates can return; a list of at most one
\* coordinate comes back as it is.
coarsen_coordinates(coord_list, size, samples, threshold) ==
    IF Len(coord_list) <= 1 THEN {CoarsenResult(coord_list, <<>>)}
    ELSE LET daily_groups == daily_groups_of(coord_list) IN
         coarsen_days(daily_groups, sorted_days(DOMAIN daily_groups), 1, <<>>, <<>>,
                      size, samples, threshold)

-----------------------------------------------------------------------------
(* The haversine formula: haversine_vectorized, preprocess.py, and          *)
(* _haversine_distance_km, coarsen.py                                       *)

\* The two functions evaluate one formula.  Here it is evaluated term by term
\* on the angles whose sines and cosines are known in closed form: whole
\* degrees that are multiples of 60.  An angle in radians is carried as its
\* number of units of pi/360, so that half of a difference is a whole number;
\* a sine is <<sign, square>>, its sign and the fraction its square is; a
\* cosine of the sample latitudes is a fraction.
np_radians(degrees) == 2 * degrees

np_sin(angle) ==
    LET sign == IF angle > 0 THEN 1 ELSE IF angle < 0 THEN -1 ELSE 0
        size == abs(angle)
    IN CASE size = 0 -> <<0, Rat(0, 1)>>
         [] size = 60 -> <<sign, Rat(1, 4)>>
         [] size = 120 -> <<sign, Rat(3, 4)>>
         [] size = 240 -> <<sign, Rat(3, 4)>>

np_cos(angle) ==
    CASE abs(angle) = 0 -> Rat(1, 1)
      [] abs(angle) = 120 -> Rat(1, 2)

\* x ** 2 of a sine
squared(sine) == sine[2]

\* 6371.0 * 2 * arctan2(sqrt(a), sqrt(1 - a)) in whole metres, for the values
\* of a the sample angles give.
great_circle_metres(a) ==
    CASE a = Rat(0, 1) -> 0
      [] a = Rat(3, 16) -> 5706280
      [] a = Rat(1, 4) -> 6671695
      [] a = Rat(7, 16) -> 9209079
      [] a = Rat(5, 8) -> 11617369
      [] a = Rat(3, 4) -> 13343391
      [] a = Rat(15, 16) -> 16795434
      [] a = Rat(1, 1) -> 20015086

\* Mutant of haversine_term: the cosine of the first latitude is taken twice.
haversine_term_first_cosine(lat1, lon1, lat2, lon2) ==
    LET dlat == lat2 - lat1
        dlon == lon2 - lon1
    IN RatAdd(squared(np_sin(dlat \div 2)),
              RatMul(RatMul(np_cos(lat1), np_cos(lat1)), squared(np_sin(dlon \div 2))))

\* dlat, dlon and a, from latitudes and longitudes in radians: the same three
\* lines in both functions.
haversine_term(lat1, lon1, lat2, lon2) ==
    LET dlat == lat2 - lat1
        dlon == lon2 - lon1
    IN RatAdd(squared(np_sin(dlat \div 2)),
              RatMul(RatMul(np_cos(lat1), np_cos(lat2)), squared(np_sin(dlon \div 2))))

\* haversine_vectorized on arrays of whole degrees
haversine_vectorized_exact(lat1, lon1, lat2, lon2) ==
    [i \in 1..Len(lat1) |->
        great_circle_metres(haversine_term(np_radians(lat1[i]), np_radians(lon1[i]),
                                           np_radians(lat2[i]), np_radians(lon2[i])))]

\* _haversine_distance_km on coordinates of whole degrees
_haversine_distance_km_exact(coord_a, coord_b) ==
    LET lat1 == np_radians(coord_a.latitude)
        lon1 == np_radians(coord_a.longitude)
        lat2 == np_radians(coord_b.latitude)
        lon2 == np_radians(coord_b.longitude)
    IN great_circle_metres(haversine_term(lat1, lon1, lat2, lon2))

-----------------------------------------------------------------------------
(* compute_location_stats and print_stats: stats.py *)

\* str.upper(), str.strip() and str.lower() on the strings of the model.
upper(text) == IF text = "us" THEN "US" ELSE text

strip_name(text) == IF text = " illinois " THEN "illinois" ELSE text

lower(text) ==
    CASE text = "Illinois" -> "illinois"
      [] text = "Washington, D.C." -> "washington, d.c."
      [] text = "Puerto Rico" -> "puerto rico"
      [] text = "Bretagne" -> "bretagne"
      [] text = "Normandie" -> "normandie"
      [] text = "Beijing" -> "beijing"
      [] text = "Nowhere" -> "nowhere"
      [] text = "Washington" -> "washington"
      [] OTHER -> text

\* The entries of US_STATE_ALIASES the model uses.
US_STATE_ALIASES ==
    [alias \in {"illinois", "washington, d.c.", "washington"} |->
        CASE alias = "illinois" -> "Illinois"
          [] alias = "washington, d.c." -> "District of Columbia"
          [] alias = "washington" -> "Washington"]

\* A dict is the sequence of its <<key, value>> items in insertion order.
dict_get(dict, key) ==
    LET at == {k \in 1..Len(dict) : dict[k][1] = key} IN
    IF at = {} THEN <<>> ELSE << dict[CHOOSE k \in at : TRUE][2] >>

dict_set(dict, key, value) ==
    IF \E k \in 1..Len(dict) : dict[k][1] = key
    THEN [k \in 1..Len(dict) |-> IF dict[k][1] = key THEN <<key, value>> ELSE dict[k]]
    ELSE Append(dict, <<key, value>>)

\* round(value, 4) of a value in 1e-7 degree that is not half-way between two
\* multiples of 1e-4 degree (no coordinate of the model is).
round4(value) == ((value + 500) \div 1000) * 1000

cache_key(coordinate) == <<round4(coordinate.latitude), round4(coordinate.longitude)>>

\* reverse_geocoder.search([latlon], mode=1, verbose=False): <<>> for an empty
\* answer, <<result>> for lookup[0].
search(latlon) == reverse_geocoder[1][latlon]

\* Mutant of seen_later: the timestamp of the coordinate processed last stays.
seen_last(last_seen, key, timestamp) == dict_set(last_seen, key, timestamp)

\* previous = last_seen.get(key)
\* if not previous or timestamp > previous: last_seen[key] = timestamp
seen_later(last_seen, key, timestamp) ==
    LET previous == dict_get(last_seen, key) IN
    IF previous = <<>> \/ timestamp > previous[1]
    THEN dict_set(last_seen, key, timestamp)
    ELSE last_seen

\* per_country = regions_last_seen.setdefault(country_code, {}), then the same
\* update of per_country[admin1].
region_seen_later(regions_last_seen, country_code, admin1, timestamp) ==
    LET per_country == dict_get(regions_last_seen, country_code) IN
    dict_set(regions_last_seen, country_code,
             seen_later(IF per_country = <<>> THEN <<>> ELSE per_country[1],
                        admin1, timestamp))

StatsState(cache, calls, countries, states, regions) ==
    [cache |-> cache, calls |-> calls, country_last_seen |-> countries,
     us_state_last_seen |-> states, regions_last_seen |-> regions]

\* The body of the loop once the coordinate has a result.
with_result(st, coordinate, result) ==
    LET country_code == upper(result.cc)
        countries == IF country_code # ""
                     THEN seen_later(st.country_last_seen, country_code,
                                     coordinate.timestamp)
                     ELSE st.country_last_seen
        admin1 == strip_name(result.admin1)
        admin1_normalized == lower(admin1)
        canonical_state == IF admin1_normalized \in DOMAIN US_STATE_ALIASES
                           THEN <<US_STATE_ALIASES[admin1_normalized]>> ELSE <<>>
    IN IF admin1 = "" THEN [st EXCEPT !.country_last_seen = countries]
       ELSE IF country_code = "US" /\ canonical_state # <<>>
       THEN [st EXCEPT !.country_last_seen = countries,
                       !.us_state_last_seen =
                           seen_later(st.us_state_last_seen, canonical_state[1],
                                      coordinate.timestamp)]
       ELSE IF country_code # ""
       THEN [st EXCEPT !.country_last_seen = countries,
                       !.regions_last_seen =
                           region_seen_later(st.regions_last_seen, country_code,
                                             admin1, coordinate.timestamp)]
       ELSE [st EXCEPT !.country_last_seen = countries]

\* for coordinate in coordinates, from the i-th coordinate on
RECURSIVE stats_loop(_, _, _)
stats_loop(coord_list, i, st) ==
    IF i > Len(coord_list) THEN st
    ELSE LET coordinate == coord_list[i]
             key == cache_key(coordinate)
             cached == dict_get(st.cache, key)
         IN IF cached # <<>>
            THEN stats_loop(coord_list, i + 1, with_result(st, coordinate, cached[1]))
            ELSE LET lookup == search(as_latlon(coordinate))
                     called == [st EXCEPT !.calls = Append(st.calls, key)]
                 IN IF lookup = <<>>
                    THEN stats_loop(coord_list, i + 1, called)
                    ELSE stats_loop(coord_list, i + 1,
                                    with_result([called EXCEPT
                                                    !.cache = dict_set(called.cache, key,
                                                                       lookup[1])],
                                                coordinate, lookup[1]))

\* One step of sorted(items, key=lambda item: item[1], reverse=True): the item
\* goes after every item that is as recent or more recent, so items of one
\* timestamp keep their order.
RECURSIVE sort_insert_latest(_, _)
sort_insert_latest(sorted_items, item) ==
    IF sorted_items = <<>> THEN <<item>>
    ELSE IF Head(sorted_items)[2] >= item[2]
         THEN <<Head(sorted_items)>> \o sort_insert_latest(Tail(sorted_items), item)
         ELSE <<item>> \o sorted_items

RECURSIVE sorted_latest_first(_)
sorted_latest_first(items) ==
    IF items = <<>> THEN <<>>
    ELSE sort_insert_latest(sorted_latest_first(SubSeq(items, 1, Len(items) - 1)),
                            items[Len(items)])

RegionVisit(identifier, label, last_seen) ==
    [identifier |-> identifier, label |-> label, last_seen |-> last_seen]

RegionGroup(country_code, country_label, regions) ==
    [country_code |-> country_code, country_label |-> country_label, regions |-> regions]

LocationStats(countries, us_states, region_groups) ==
    [countries |-> countries, us_states |-> us_states, region_groups |-> region_groups]

\* pycountry's common_name or name of the country, the code itself when
\* pycountry is absent or does not know it; "Unknown" for an empty code.
lookup_country_name(iso_code) ==
    IF iso_code = "" THEN "Unknown"
    ELSE IF pycountry # <<>> /\ upper(iso_code) \in DOMAIN pycountry[1]
         THEN pycountry[1][upper(iso_code)]
         ELSE upper(iso_code)

\* Mutant of groups_from: the group of "US" is kept.
RECURSIVE groups_from_with_us(_, _)
groups_from_with_us(regions_last_seen, k) ==
    IF k > Len(regions_last_seen) THEN <<>>
    ELSE LET country_code == regions_last_seen[k][1]
             sorted_regions == sorted_latest_first(regions_last_seen[k][2])
             visits == [r \in 1..Len(sorted_regions) |->
                           RegionVisit(<<country_code, "-", sorted_regions[r][1]>>,
                                       sorted_regions[r][1], sorted_regions[r][2])]
         IN IF visits = <<>>
            THEN groups_from_with_us(regions_last_seen, k + 1)
            ELSE <<RegionGroup(country_code, lookup_country_name(country_code), visits)>>
                 \o groups_from_with_us(regions_last_seen, k + 1)

\* The groups in the order of regions_last_seen, "US" left out.
RECURSIVE groups_from(_, _)
groups_from(regions_last_seen, k) ==
    IF k > Len(regions_last_seen) THEN <<>>
    ELSE LET country_code == regions_last_seen[k][1]
             sorted_regions == sorted_latest_first(regions_last_seen[k][2])
             visits == [r \in 1..Len(sorted_regions) |->
                           RegionVisit(<<country_code, "-", sorted_regions[r][1]>>,
                                       sorted_regions[r][1], sorted_regions[r][2])]
         IN IF country_code = "US" \/ visits = <<>>
            THEN groups_from(regions_last_seen, k + 1)
            ELSE <<RegionGroup(country_code, lookup_country_name(country_code), visits)>>
                 \o groups_from(regions_last_seen, k + 1)

\* region_groups.sort(key=lambda group: group.regions[0].last_seen, reverse=True)
RECURSIVE sort_groups(_)
sort_groups(groups) ==
    IF groups = <<>> THEN <<>>
    ELSE LET keyed == sorted_latest_first(
                          [k \in 1..Len(groups) |->
                              <<groups[k], groups[k].regions[1].last_seen>>])
         IN [k \in 1..Len(keyed) |-> keyed[k][1]]

\* What the loop leaves, and what the function returns: <<>> for None,
\* <<LocationStats>> otherwise.
compute_location_stats(coord_list) ==
    IF reverse_geocoder = <<>>
    THEN [calls |-> <<>>, value |-> <<>>]
    ELSE LET st == stats_loop(coord_list, 1, StatsState(<<>>, <<>>, <<>>, <<>>, <<>>))
             by_country == sorted_latest_first(st.country_last_seen)
             by_state == sorted_latest_first(st.us_state_last_seen)
             countries == [k \in 1..Len(by_country) |->
                              RegionVisit(by_country[k][1],
                                          lookup_country_name(by_country[k][1]),
                                          by_country[k][2])]
             us_states == [k \in 1..Len(by_state) |->
                              RegionVisit(by_state[k][1], by_state[k][1], by_state[k][2])]
             region_groups == sort_groups(groups_from(st.regions_last_seen, 1))
         IN [calls |-> st.calls,
             value |-> <<LocationStats(countries, us_states, region_groups)>>]

\* dt.astimezone(LOCAL_TZ).strftime("%Y-%m-%d"): the local day of the instant.
isoformat_local(ts) == <<"day", local_day(ts)>>

country_lines(visits) ==
    [k \in 1..Len(visits) |->
        <<"  - ", visits[k].label, visits[k].identifier,
          isoformat_local(visits[k].last_seen)>>]

state_lines(visits) ==
    [k \in 1..Len(visits) |->
        <<"  - ", visits[k].label, isoformat_local(visits[k].last_seen)>>]

region_lines(visits) ==
    [k \in 1..Len(visits) |->
        <<"    - ", visits[k].label, isoformat_local(visits[k].last_seen)>>]

RECURSIVE group_lines(_, _)
group_lines(groups, k) ==
    IF k > Len(groups) THEN <<>>
    ELSE << <<"  ", groups[k].country_label, groups[k].country_code,
              Len(groups[k].regions)>> >>
         \o region_lines(groups[k].regions) \o group_lines(groups, k + 1)

\* The lines printed for a LocationStats.
stats_lines(location_stats) ==
    << <<"Travel Stats">>, <<"------------">>,
       <<"Visited countries: ", Len(location_stats.countries)>> >>
    \o country_lines(location_stats.countries)
    \o (IF location_stats.us_states # <<>>
        THEN << <<"Visited US states: ", Len(location_stats.us_states)>> >>
             \o state_lines(location_stats.us_states)
        ELSE <<>>)
    \o (IF location_stats.region_groups # <<>>
        THEN << <<"Regions by country:">> >> \o group_lines(location_stats.region_groups, 1)
        ELSE <<>>)

\* Mutant of print_stats: without stats it prints nothing.
print_stats_silent(value) ==
    IF value = <<>> THEN <<>> ELSE stats_lines(value[1])

\* The lines print_stats prints.  A LocationStats is true whatever it holds,
\* so "not stats" is "stats is None".
print_stats(value) ==
    IF value = <<>>
    THEN IF reverse_geocoder = <<>> THEN << <<"Travel stats unavailable">> >> ELSE <<>>
    ELSE stats_lines(value[1])

-----------------------------------------------------------------------------
(* main: cli.py *)

\* args.output is <<>> (None) or <<path>>; args.coarsen is <<>> (None),
\* <<TRUE>> or <<FALSE>>; a date option is <<>> (None) or <<text>>.
Namespace(from, to, jump, no_prompt, coarsen, exclude, include, output) ==
    [start_date |-> from, end_date |-> to,
     jump_threshold_km |-> jump, no_prompt |-> no_prompt, coarsen |-> coarsen,
     exclude_no_fly_zones |-> exclude, include_no_fly_zones |-> include,
     output |-> output]

\* The answer is the line the prompt loop ends with, stripped and lowered: the
\* loop asks again until it is one of those it knows.
decide_no_fly_preference(namespace, prompting, answer) ==
    IF namespace.exclude_no_fly_zones THEN TRUE
    ELSE IF namespace.include_no_fly_zones THEN FALSE
    ELSE IF ~prompting THEN FALSE
    ELSE answer \in {"y", "yes", ""}

decide_coarsen_preference(namespace, prompting, answer) ==
    IF namespace.coarsen = <<TRUE>> THEN TRUE
    ELSE IF namespace.coarsen = <<FALSE>> THEN FALSE
    ELSE IF ~prompting THEN FALSE
    ELSE answer \in {"y", "yes"}

\* Mutant of no_fly_choice: the options and the prompt decide, coarsening or not.
no_fly_choice_as_asked(coarsening, namespace, prompting, answer) ==
    decide_no_fly_preference(namespace, prompting, answer)

\* exclude_no_fly_zones = True if apply_coarsening else decide_no_fly_preference(...)
no_fly_choice(coarsening, namespace, prompting, answer) ==
    IF coarsening THEN TRUE ELSE decide_no_fly_preference(namespace, prompting, answer)

\* prompt_single: Enter gives the default, anything else is parsed.
prompt_single(default, typed) ==
    IF typed = <<>> THEN Parsed(default) ELSE parse_date_string(typed)

\* One turn of the loop of prompt_date_range on the two lines typed, <<for the
\* start, for the end>>: the pair it returns, or ok FALSE when it asks again.
prompt_date_range(existing_start, existing_end, earliest, latest, typed) ==
    LET start_default == IF existing_start # <<>> THEN existing_start[1] ELSE earliest
        end_default == IF existing_end # <<>> THEN existing_end[1] ELSE latest
        asked_start == prompt_single(start_default, typed[1])
        asked_end == prompt_single(end_default, typed[2])
    IN IF asked_start.ok /\ asked_end.ok /\ asked_start.value <= asked_end.value
       THEN [ok |-> TRUE, start |-> <<asked_start.value>>, end |-> <<asked_end.value>>]
       ELSE [ok |-> FALSE, start |-> <<>>, end |-> <<>>]

\* Mutant of SystemExitMessage: an empty date filter is reported as an empty
\* extraction.
SystemExitMessageOfExtraction(stage) ==
    CASE stage = "load_takeout_payload" ->
             "No location entries found in the supplied file."
      [] stage \in {"extract_coordinates", "apply_date_filters"} ->
             "No location records could be parsed from the supplied file."
      [] stage = "filter_no_fly_zones" ->
             "All records were removed by the no-fly zone filters. Retry without --exclude-no-fly-zones or adjust your data range."
      [] stage = "build_segments" ->
             "All segments were discarded. Try increasing --jump-threshold-km."

\* The message main leaves with when the stage returned nothing.
SystemExitMessage(stage) ==
    CASE stage = "load_takeout_payload" ->
             "No location entries found in the supplied file."
      [] stage = "extract_coordinates" ->
             "No location records could be parsed from the supplied file."
      [] stage = "apply_date_filters" ->
             "No location records matched the specified filters."
      [] stage = "filter_no_fly_zones" ->
             "All records were removed by the no-fly zone filters. Retry without --exclude-no-fly-zones or adjust your data range."
      [] stage = "build_segments" ->
             "All segments were discarded. Try increasing --jump-threshold-km."

Stage(name, count) == [stage |-> name, count |-> count]

\* A path is the sequence of its parts; the default directory is the one that
\* holds the package.
DEFAULT_OUTPUT_DIR == "src"

\* Mutant of output_path_of: --output is ignored.
output_path_of_default(namespace, coarsening, excluding) ==
    <<DEFAULT_OUTPUT_DIR,
      IF coarsening THEN "trajectory_coarsen.html"
      ELSE IF excluding THEN "trajectory_nfz.html"
      ELSE "trajectory_full.html">>

output_path_of(namespace, coarsening, excluding) ==
    IF namespace.output # <<>> THEN namespace.output[1]
    ELSE <<DEFAULT_OUTPUT_DIR,
           IF coarsening THEN "trajectory_coarsen.html"
           ELSE IF excluding THEN "trajectory_nfz.html"
           ELSE "trajectory_full.html">>

\* The two carriers of a latitude or longitude: the fraction of a degree that
\* coarsening computes with, and 1e-7 degree, rounded down.
degrees_of(e7) == Rat(e7, 10000000)

e7_of(degrees) ==
    (degrees[1] \div degrees[2]) * 10000000
        + ((degrees[1] % degrees[2]) * 10000000) \div degrees[2]

in_degrees(coord_list) ==
    [k \in 1..Len(coord_list) |->
        Coordinate(degrees_of(coord_list[k].latitude),
                   degrees_of(coord_list[k].longitude), coord_list[k].timestamp)]

in_e7(coord_list) ==
    listed([k \in 1..Len(coord_list) |->
               Coordinate(e7_of(coord_list[k].latitude), e7_of(coord_list[k].longitude),
                          coord_list[k].timestamp)],
           Len(coord_list))

-----------------------------------------------------------------------------
(* Bounds of the runs *)

MaxCoords == 4

MaxEntries == 3

MaxFilterCoords == 3

MaxTimestamp == 3

MaxMainCoords == 3

MaxNfzCoords == 3

MaxCoarsenCoords == 3

MaxStatsCoords == 3
\* The longest list given to the two filters in both orders.
MaxCommuteCoords == 3
\* The longest payload given to main.
MaxRunEntries == 2

-----------------------------------------------------------------------------
(* The state before any call *)

SegIdle ==
    /\ coordinates = <<>>
    /\ threshold_km = 0
    /\ seg_result = None
    /\ seg_pc = "idle"
    /\ distance_km = <<>>

ExtractIdle ==
    /\ payload = <<>>
    /\ records = <<>>
    /\ all_coordinates = <<>>
    /\ extract_pc = "idle"

LoadIdle ==
    /\ top = JsonScalar
    /\ entries = <<>>
    /\ load_pc = "idle"

FilterIdle ==
    /\ filter_input = ListObject(0, <<>>)
    /\ start = <<>>
    /\ end = <<>>
    /\ filtered = None
    /\ filter_pc = "idle"

MainIdle ==
    /\ start_date = <<>>
    /\ end_date = <<>>
    /\ main_all_coordinates = <<>>
    /\ main_start = <<>>
    /\ main_end = <<>>
    /\ main_coordinates = <<>>
    /\ main_pc = "idle"

NfzIdle ==
    /\ NO_FLY_ZONES = ShippedZones
    /\ nfz_input = <<>>
    /\ nfz_filtered = <<>>
    /\ excluded_counts = NoCounts
    /\ nfz_pc = "idle"

CoarsenIdle ==
    /\ coarsen_input = <<>>
    /\ window_size = 0
    /\ min_samples = 0
    /\ bridge_threshold_km = 0
    /\ day_log = <<>>
    /\ coarsened = <<>>
    /\ coarsen_pc = "idle"

StatsIdle ==
    /\ reverse_geocoder = <<>>
    /\ pycountry = <<>>
    /\ stats_input = <<>>
    /\ search_calls = <<>>
    /\ stats = <<>>
    /\ printed = <<>>
    /\ stats_pc = "idle"

CommuteIdle ==
    /\ commute_input = <<>>
    /\ commute_start = <<>>
    /\ commute_end = <<>>
    /\ date_then_zones = <<>>
    /\ zones_once = NoResult
    /\ zones_then_date = <<>>
    /\ zones_twice = NoResult
    /\ commute_pc = "idle"

HaversineIdle ==
    /\ haversine_points = <<>>
    /\ vectorized = <<>>
    /\ pairwise = <<>>

RunIdle ==
    /\ args = <<>>
    /\ stdin_isatty = FALSE
    /\ input_file = <<>>
    /\ run_entries = <<>>
    /\ run_all_coordinates = <<>>
    /\ run_start = <<>>
    /\ run_end = <<>>
    /\ should_prompt = FALSE
    /\ apply_coarsening = FALSE
    /\ exclude_no_fly_zones = FALSE
    /\ run_coordinates = <<>>
    /\ run_raw = <<>>
    /\ run_trace = <<>>
    /\ run_message = <<>>
    /\ run_written = <<>>
    /\ run_pc = "idle"

-----------------------------------------------------------------------------
(* A call of build_segments *)

Thresholds == {50, 100, 250}

\* The places build_segments is fed: every sample place but the fifth, whose
\* distances to the others repeat cases the others already give.
SegPlaces == {1, 2, 3, 4, 6, 7, 8, 9, 10}

\* A chronologically ordered list: the k-th coordinate is stamped (k + 1) \div 2,
\* so that neighbours may share a timestamp.
CoordinatesAt(ps) ==
    [k \in 1..Len(ps) |-> Coordinate(Places[ps[k]][1], Places[ps[k]][2], (k + 1) \div 2)]

PlaceSeqs(n) == UNION {[1..k -> SegPlaces] : k \in 0..n}

SegInit ==
    /\ ExtractIdle /\ LoadIdle /\ FilterIdle
    /\ MainIdle /\ NfzIdle /\ CoarsenIdle /\ StatsIdle /\ CommuteIdle /\ HaversineIdle
    /\ RunIdle
    /\ coordinates \in {CoordinatesAt(ps) : ps \in PlaceSeqs(MaxCoords)}
    /\ threshold_km \in Thresholds
    /\ seg_result = None
    /\ seg_pc = "start"
    /\ distance_km = <<>>

BuildSegments ==
    /\ seg_pc = "start"
    /\ seg_result' = build_segments(coordinates, threshold_km)
    /\ seg_pc' = "done"
    /\ UNCHANGED <<coordinates, threshold_km, distance_km, extract_vars, load_vars,
                 filter_vars, main_vars, nfz_vars, coarsen_vars, stats_vars,
                   commute_vars, haversine_vars, run_vars>>

SegNext == BuildSegments

SpecSegments == SegInit /\ [][SegNext]_vars

-----------------------------------------------------------------------------
(* build_segments and compute_total_distance_km on one list *)

\* Places 77.8, 100.0, 100.006 and 126.7 km apart, one 1.1 km from the first
\* and one far from them all.
DistancePlaces == {1, 2, 3, 4, 8}

DistanceInit ==
    /\ ExtractIdle /\ LoadIdle /\ FilterIdle
    /\ MainIdle /\ NfzIdle /\ CoarsenIdle /\ StatsIdle /\ CommuteIdle /\ HaversineIdle
    /\ RunIdle
    /\ coordinates \in {CoordinatesAt(ps) :
                           ps \in UNION {[1..k -> DistancePlaces] : k \in 0..MaxCoords}}
    /\ threshold_km \in Thresholds
    /\ seg_result = None
    /\ seg_pc = "start"
    /\ distance_km = <<>>

\* distance_km = compute_total_distance_km(coordinates, args.jump_threshold_km),
\* which main calls after build_segments with the same two arguments.
ComputeTotalDistanceKm ==
    /\ seg_pc = "done"
    /\ distance_km = <<>>
    /\ distance_km' = <<compute_total_distance_km(coordinates, threshold_km)>>
    /\ UNCHANGED <<coordinates, threshold_km, seg_result, seg_pc, extract_vars,
                 load_vars, filter_vars, main_vars, nfz_vars, coarsen_vars, stats_vars,
                   commute_vars, haversine_vars, run_vars>>

DistanceNext == BuildSegments \/ ComputeTotalDistanceKm

SpecDistance == DistanceInit /\ [][DistanceNext]_vars

-----------------------------------------------------------------------------
(* A call of extract_coordinates *)

\* Raw timestamps: 5 s after the epoch written with "Z" and with an offset,
\* 7 s as milliseconds and without a zone, 3 s, and one that does not parse.
TsFiveZ == <<"1970-01-01T00:00:05", "Z">>
TsFiveOffset == <<"1970-01-01T01:00:05", "+01:00">>
TsSevenMs == <<"7000">>
TsSevenNaive == <<"1970-01-01T01:00:07">>
TsThreeZ == <<"1970-01-01T00:00:03", "Z">>
TsBad == <<"yesterday">>

\* Geo-point strings: three that parse, three that do not.
GeoOrigin == <<"geo:", "0.0", ",", "0.0">>
GeoEast == <<"geo:", "0.0", ",", "0.7">>
GeoNoPrefix == <<"10.0", ",", "10.0">>
GeoNoComma == <<"geo:", "0.0">>
GeoNotNumber == <<"geo:", "north", ",", "0.0">>
GeoThreeParts == <<"geo:", "0.0", ",", "0.0", ",", "0.7">>

SampleEntries == <<
    \* 1: flat, ISO timestamp
    [latitudeE7 |-> 0, longitudeE7 |-> 0, timestamp |-> TsFiveZ],
    \* 2: flat, empty timestamp, timestampMs used instead
    [latitudeE7 |-> 100000000, longitudeE7 |-> 100000000,
     timestamp |-> <<>>, timestampMs |-> TsSevenMs],
    \* 3: flat keys without timestamp, though a usable timelinePath is there
    [latitudeE7 |-> 0, longitudeE7 |-> 7000000,
     timelinePath |-> <<[point |-> GeoOrigin]>>, startTime |-> TsFiveZ],
    \* 4: flat keys with timestamp, and a timelinePath whose point does not parse
    [latitudeE7 |-> 0, longitudeE7 |-> 7000000, timestamp |-> TsThreeZ,
     timelinePath |-> <<[point |-> GeoNotNumber]>>, startTime |-> TsFiveZ],
    \* 5: timelinePath of two points
    [timelinePath |-> <<[point |-> GeoEast], [point |-> GeoOrigin]>>,
     startTime |-> TsFiveOffset],
    \* 6: timelinePath with an entry without point and one with an empty point
    [timelinePath |-> <<[point |-> GeoNoPrefix],
                        [durationMinutesOffsetFromStartTime |-> <<"10">>],
                        [point |-> <<>>]>>,
     startTime |-> TsThreeZ],
    \* 7: timelinePath without startTime, its point does not parse
    [timelinePath |-> <<[point |-> GeoNoComma]>>],
    \* 8: timelinePath with startTime, its second point does not parse
    [timelinePath |-> <<[point |-> GeoOrigin], [point |-> GeoThreeParts]>>,
     startTime |-> TsSevenNaive],
    \* 9: visit with a place location
    [visit |-> [topCandidate |-> [placeLocation |-> GeoEast]], startTime |-> TsSevenMs],
    \* 10: visit whose place location does not parse
    [visit |-> [topCandidate |-> [placeLocation |-> GeoNoComma]], startTime |-> TsFiveZ],
    \* 11: visit without topCandidate
    [visit |-> [hierarchyLevel |-> <<"0">>], startTime |-> TsFiveZ],
    \* 12: visit without place location
    [visit |-> [topCandidate |-> [placeId |-> <<"abc">>]], startTime |-> TsFiveZ],
    \* 13: none of the three shapes
    [activity |-> <<"walking">>, startTime |-> TsFiveZ],
    \* 14: latitudeE7 alone, and a visit: read as a visit
    [latitudeE7 |-> 0, visit |-> [topCandidate |-> [placeLocation |-> GeoOrigin]],
     startTime |-> TsSevenNaive],
    \* 15: timelinePath and a visit whose place location does not parse: read
    \* as a timelinePath
    [timelinePath |-> <<[point |-> GeoNoPrefix]>>,
     visit |-> [topCandidate |-> [placeLocation |-> GeoNotNumber]],
     startTime |-> TsFiveZ],
    \* 16: flat, the timestamp does not parse
    [latitudeE7 |-> 0, longitudeE7 |-> 0, timestamp |-> TsBad],
    \* 17: visit without startTime, its place location does not parse
    [visit |-> [topCandidate |-> [placeLocation |-> GeoNotNumber]]],
    \* 18: the empty object
    <<>> >>

EntriesAt(ix) == [k \in 1..Len(ix) |-> SampleEntries[ix[k]]]

EntryIndexSeqs(n) == UNION {[1..k -> 1..Len(SampleEntries)] : k \in 0..n}

ExtractInit ==
    /\ SegIdle /\ LoadIdle /\ FilterIdle
    /\ MainIdle /\ NfzIdle /\ CoarsenIdle /\ StatsIdle /\ CommuteIdle /\ HaversineIdle
    /\ RunIdle
    /\ \E ix \in EntryIndexSeqs(MaxEntries) : payload = EntriesAt(ix)
    /\ records = <<>>
    /\ all_coordinates = <<>>
    /\ extract_pc = "start"

ExtractCoordinates ==
    /\ extract_pc = "start"
    /\ LET result == extract_coordinates(payload) IN
        /\ records' = result.records
        /\ all_coordinates' = result.value
        /\ extract_pc' = result.status
    /\ UNCHANGED <<payload, seg_vars, load_vars, filter_vars,
                 main_vars, nfz_vars, coarsen_vars, stats_vars, commute_vars,
                   haversine_vars, run_vars>>

ExtractNext == ExtractCoordinates

SpecExtract == ExtractInit /\ [][ExtractNext]_vars

-----------------------------------------------------------------------------
(* A call of load_takeout_payload *)

\* The files of the model: an object with locations, with locations and
\* timelinePath, a single entry as the whole file (with or without a
\* timelinePath key), a list, and a value that is neither object nor list.
LoadInit ==
    /\ SegIdle /\ ExtractIdle /\ FilterIdle
    /\ MainIdle /\ NfzIdle /\ CoarsenIdle /\ StatsIdle /\ CommuteIdle /\ HaversineIdle
    /\ RunIdle
    /\ \/ \E ix \in EntryIndexSeqs(MaxEntries) :
            top = JsonObject([locations |-> EntriesAt(ix)])
       \/ \E ix \in EntryIndexSeqs(MaxEntries) :
            top = JsonObject([locations |-> EntriesAt(ix),
                              timelinePath |-> <<[point |-> GeoOrigin]>>,
                              startTime |-> TsFiveZ])
       \/ \E k \in 1..Len(SampleEntries) : top = JsonObject(SampleEntries[k])
       \/ \E ix \in EntryIndexSeqs(MaxEntries) : top = JsonList(EntriesAt(ix))
       \/ top = JsonScalar
    /\ entries = <<>>
    /\ load_pc = "start"

LoadTakeoutPayload ==
    /\ load_pc = "start"
    /\ LET result == load_takeout_payload(top) IN
        /\ entries' = result.entries
        /\ load_pc' = result.status
    /\ UNCHANGED <<top, seg_vars, extract_vars, filter_vars,
                 main_vars, nfz_vars, coarsen_vars, stats_vars, commute_vars,
                   haversine_vars, run_vars>>

LoadNext == LoadTakeoutPayload

SpecLoad == LoadInit /\ [][LoadNext]_vars

-----------------------------------------------------------------------------
(* A call of apply_date_filters *)

FilterPlaces == {1, 5}

\* Lists in chronological order, as extract_coordinates returns them.
FilterLists(n) ==
    UNION {{[k \in 1..len |-> Coordinate(Places[ps[k]][1], Places[ps[k]][2], ts[k])] :
               ps \in [1..len -> FilterPlaces],
               ts \in {t \in [1..len -> 1..MaxTimestamp] :
                          \A i \in 1..(len - 1) : t[i] <= t[i + 1]}} :
           len \in 0..n}

OptionalTimestamps == {<<>>} \cup {<<t>> : t \in 0..(MaxTimestamp + 1)}

FilterInit ==
    /\ SegIdle /\ ExtractIdle /\ LoadIdle
    /\ MainIdle /\ NfzIdle /\ CoarsenIdle /\ StatsIdle /\ CommuteIdle /\ HaversineIdle
    /\ RunIdle
    /\ \E items \in FilterLists(MaxFilterCoords) : filter_input = ListObject(1, items)
    /\ start \in OptionalTimestamps
    /\ end \in OptionalTimestamps
    /\ filtered = None
    /\ filter_pc = "start"

ApplyDateFilters ==
    /\ filter_pc = "start"
    /\ filtered' = apply_date_filters(filter_input, start, end)
    /\ filter_pc' = "done"
    /\ UNCHANGED <<filter_input, start, end, seg_vars, extract_vars, load_vars,
                 main_vars, nfz_vars, coarsen_vars, stats_vars, commute_vars,
                   haversine_vars, run_vars>>

FilterNext == ApplyDateFilters

SpecFilter == FilterInit /\ [][FilterNext]_vars

-----------------------------------------------------------------------------
(* The date filter of main, run without prompting *)

\* The values of --start-date and --end-date: absent, empty, a day in either
\* format, with blanks around it, and a string in neither format.
DateArgs ==
    {<<>>, << <<>> >>, << <<"1970-01-02">> >>, << <<"1970-01-03">> >>,
     << <<" ", "19700102", " ">> >>, << <<"02/01/1970">> >>}

\* Instants in ms since the epoch; in local time (UTC+1) they are the last
\* millisecond of day 0, 00:00:00, 10:00:00 and the last millisecond of day 1,
\* 00:00:00 and 10:00:00 of day 2.
MainTimestamps == {82799999, 82800000, 118800000, 169199999, 169200000, 205200000}

\* all_coordinates as extract_coordinates returns it: not empty, chronological.
MainLists(n) ==
    UNION {{[k \in 1..len |-> Coordinate(0, 0, ts[k])] :
               ts \in {t \in [1..len -> MainTimestamps] :
                          \A i \in 1..(len - 1) : t[i] <= t[i + 1]}} :
           len \in 1..n}

MainInit ==
    /\ SegIdle /\ ExtractIdle /\ LoadIdle /\ FilterIdle
    /\ NfzIdle /\ CoarsenIdle /\ StatsIdle /\ CommuteIdle /\ HaversineIdle /\ RunIdle
    /\ start_date \in DateArgs
    /\ end_date \in DateArgs
    /\ main_all_coordinates \in MainLists(MaxMainCoords)
    /\ main_start = <<>>
    /\ main_end = <<>>
    /\ main_coordinates = <<>>
    /\ main_pc = "args"

\* start = parse_date_string(args.start_date) if args.start_date else None,
\* and the same for end; a ValueError of either leaves main.
MainParseDates ==
    /\ main_pc = "args"
    /\ LET parsed_start == date_option(start_date)
           parsed_end == date_option(end_date) IN
        IF parsed_start.ok /\ parsed_end.ok
        THEN /\ main_start' = parsed_start.value
             /\ main_end' = parsed_end.value
             /\ main_pc' = "dates"
        ELSE /\ UNCHANGED <<main_start, main_end>>
             /\ main_pc' = "ValueError"
    /\ UNCHANGED <<start_date, end_date, main_all_coordinates, main_coordinates,
                   seg_vars, extract_vars, load_vars, filter_vars, nfz_vars,
                   coarsen_vars, stats_vars, commute_vars, haversine_vars, run_vars>>

\* should_prompt is false, so the bounds stay as parsed;
\* coordinates = apply_date_filters(all_coordinates, start, end), and main
\* leaves with SystemExit when nothing matched.
MainApplyDateFilters ==
    /\ main_pc = "dates"
    /\ LET result ==
               apply_date_filters(ListObject(0, main_all_coordinates),
                                  main_start, main_end) IN
        /\ main_coordinates' = result.items
        /\ main_pc' = IF result.items = <<>> THEN "SystemExit" ELSE "filtered"
    /\ UNCHANGED <<start_date, end_date, main_all_coordinates, main_start, main_end,
                   seg_vars, extract_vars, load_vars, filter_vars, nfz_vars,
                   coarsen_vars, stats_vars, commute_vars, haversine_vars, run_vars>>

MainNext == MainParseDates \/ MainApplyDateFilters

SpecMain == MainInit /\ [][MainNext]_vars

-----------------------------------------------------------------------------
(* A call of filter_no_fly_zones *)

\* A second rectangle that overlaps the north of the Chicago zone.
NorthShore == NoFlyZone("North Shore", 420000000, 423000000, -878000000, -876000000)

\* NO_FLY_ZONES is read when the function runs: the runs take the value
\* constants.py ships and, for zones that overlap, the Chicago zone with the
\* second rectangle after it and before it.
ZoneConfigurations ==
    {ShippedZones, <<ShippedZones[1], NorthShore>>, <<NorthShore, ShippedZones[1]>>}

\* <<latitude, longitude>> in 1e-7 degree: the two corners of the Chicago zone,
\* a point inside it, one 1e-7 degree south of its south-west corner, one
\* north of both rectangles, one inside Beijing, one in both rectangles and
\* one in the second rectangle only.
NfzPlaces ==
    << <<416000000, -879500000>>, <<421000000, -875000000>>,
       <<418000000, -877000000>>, <<415999999, -879500000>>,
       <<425000000, -877000000>>, <<399000000, 1164000000>>,
       <<420500000, -877000000>>, <<421500000, -877000000>> >>

NfzLists(n) ==
    UNION {{[k \in 1..len |-> Coordinate(NfzPlaces[ps[k]][1], NfzPlaces[ps[k]][2], k)] :
               ps \in [1..len -> 1..Len(NfzPlaces)]} :
           len \in 0..n}

NfzInit ==
    /\ SegIdle /\ ExtractIdle /\ LoadIdle /\ FilterIdle
    /\ MainIdle /\ CoarsenIdle /\ StatsIdle /\ CommuteIdle /\ HaversineIdle /\ RunIdle
    /\ NO_FLY_ZONES \in ZoneConfigurations
    /\ nfz_input \in NfzLists(MaxNfzCoords)
    /\ nfz_filtered = <<>>
    /\ excluded_counts = NoCounts
    /\ nfz_pc = "start"

FilterNoFlyZones ==
    /\ nfz_pc = "start"
    /\ LET result == filter_no_fly_zones(nfz_input) IN
        /\ nfz_filtered' = result.filtered
        /\ excluded_counts' = result.excluded_counts
    /\ nfz_pc' = "done"
    /\ UNCHANGED <<NO_FLY_ZONES, nfz_input, seg_vars, extract_vars, load_vars,
                   filter_vars, main_vars, coarsen_vars, stats_vars, commute_vars,
                   haversine_vars, run_vars>>

NfzNext == FilterNoFlyZones

SpecNfz == NfzInit /\ [][NfzNext]_vars

-----------------------------------------------------------------------------
(* A call of coarsen_coordinates *)

\* <<latitude, longitude>> in degrees: two points of the equator and two of
\* the prime meridian, two degrees (222 km) apart.
EquatorPlaces == << <<Rat(0, 1), Rat(0, 1)>>, <<Rat(0, 1), Rat(2, 1)>> >>

MeridianPlaces == << <<Rat(0, 1), Rat(0, 1)>>, <<Rat(2, 1), Rat(0, 1)>> >>

\* Instants in ms since the epoch; in local time (UTC+1) they are the last
\* millisecond of day 0, 00:00:00 and 12:00:00 of day 1, and 00:00:00 of day 3.
CoarsenTimestamps == {82799999, 82800000, 126000000, 255600000}

\* Lists in chronological order, as main passes them, all on the equator or
\* all on the prime meridian.
CoarsenLists(n) ==
    UNION {{[k \in 1..len |-> Coordinate(places[ps[k]][1], places[ps[k]][2], ts[k])] :
               ps \in [1..len -> 1..2],
               ts \in {t \in [1..len -> CoarsenTimestamps] :
                          \A i \in 1..(len - 1) : t[i] <= t[i + 1]},
               places \in {EquatorPlaces, MeridianPlaces}} :
           len \in 0..n}

\* <<window_size, min_samples, bridge_threshold_km>>: the defaults of the
\* function, which main uses, and small values.
CoarsenParameters == ({1, 2} \X {2, 4} \X {0, 150}) \cup {<<5, 10, 150>>}

CoarsenInit ==
    /\ SegIdle /\ ExtractIdle /\ LoadIdle /\ FilterIdle
    /\ MainIdle /\ NfzIdle /\ StatsIdle /\ CommuteIdle /\ HaversineIdle /\ RunIdle
    /\ coarsen_input \in CoarsenLists(MaxCoarsenCoords)
    /\ \E parameters \in CoarsenParameters :
        /\ window_size = parameters[1]
        /\ min_samples = parameters[2]
        /\ bridge_threshold_km = parameters[3]
    /\ day_log = <<>>
    /\ coarsened = <<>>
    /\ coarsen_pc = "start"

CoarsenCoordinates ==
    /\ coarsen_pc = "start"
    /\ \E result \in coarsen_coordinates(coarsen_input, window_size, min_samples,
                                         bridge_threshold_km) :
        /\ coarsened' = result.coarsened
        /\ day_log' = result.day_log
    /\ coarsen_pc' = "done"
    /\ UNCHANGED <<coarsen_input, window_size, min_samples, bridge_threshold_km,
                   seg_vars, extract_vars, load_vars, filter_vars, main_vars,
                   nfz_vars, stats_vars, commute_vars, haversine_vars, run_vars>>

CoarsenNext == CoarsenCoordinates

SpecCoarsen == CoarsenInit /\ [][CoarsenNext]_vars

\* Lists in any order of time, all on the equator or all on the prime meridian.
UnorderedLists(n) ==
    UNION {{[k \in 1..len |-> Coordinate(places[ps[k]][1], places[ps[k]][2], ts[k])] :
               ps \in [1..len -> 1..2],
               ts \in [1..len -> CoarsenTimestamps],
               places \in {EquatorPlaces, MeridianPlaces}} :
           len \in 0..n}

\* The defaults of the function, and two sets of small values.
UnorderedParameters == {<<5, 10, 150>>, <<1, 2, 150>>, <<2, 4, 0>>}

UnorderedInit ==
    /\ SegIdle /\ ExtractIdle /\ LoadIdle /\ FilterIdle
    /\ MainIdle /\ NfzIdle /\ StatsIdle /\ CommuteIdle /\ HaversineIdle /\ RunIdle
    /\ coarsen_input \in UnorderedLists(MaxCoarsenCoords)
    /\ \E parameters \in UnorderedParameters :
        /\ window_size = parameters[1]
        /\ min_samples = parameters[2]
        /\ bridge_threshold_km = parameters[3]
    /\ day_log = <<>>
    /\ coarsened = <<>>
    /\ coarsen_pc = "start"

SpecCoarsenUnordered == UnorderedInit /\ [][CoarsenNext]_vars

-----------------------------------------------------------------------------
(* compute_location_stats and print_stats as main calls them *)

\* Four places in 1e-7 degree; the first two differ only beyond the fourth
\* decimal, so they share one rounded key.
StatsPlaces ==
    << <<418000100, -876000100>>, <<418000400, -876000100>>,
       <<488000000, 23000000>>, <<399000000, 1164000000>> >>

\* Instants either side of a local midnight.
StatsTimestamps == {82799999, 82800000}

Found(cc, admin1) == << [cc |-> cc, admin1 |-> admin1] >>

Answers(first, second, third, fourth) ==
    [latlon \in {StatsPlaces[k] : k \in 1..4} |->
        CASE latlon = StatsPlaces[1] -> first
          [] latlon = StatsPlaces[2] -> second
          [] latlon = StatsPlaces[3] -> third
          [] latlon = StatsPlaces[4] -> fourth]

\* What reverse_geocoder can be: absent, or one of six data sets.
Geocoders ==
    { <<>>,
      << Answers(<<>>, <<>>, <<>>, <<>>) >>,
      << Answers(<<>>, Found("US", "Illinois"), Found("FR", "Bretagne"),
                 Found("FR", "Normandie")) >>,
      << Answers(Found("us", " illinois "), Found("US", "Washington, D.C."),
                 Found("US", "Puerto Rico"), Found("CN", "Beijing")) >>,
      << Answers(Found("MC", ""), <<>>, Found("", "Nowhere"), Found("FR", "Bretagne")) >>,
      << Answers(Found("FR", "Bretagne"), Found("FR", "Normandie"),
                 Found("FR", "Normandie"), Found("CN", "Beijing")) >>,
      << Answers(Found("US", "Washington"), Found("US", "Nowhere"),
                 Found("CA", "Washington"), Found("US", "Puerto Rico")) >> }

\* What pycountry can be: absent, or its names of three countries.
CountryNames ==
    { <<>>,
      << [code \in {"US", "FR", "CN"} |->
            CASE code = "US" -> "United States"
              [] code = "FR" -> "France"
              [] code = "CN" -> "China"] >> }

StatsLists(n) ==
    UNION {{[k \in 1..len |-> Coordinate(StatsPlaces[ps[k]][1], StatsPlaces[ps[k]][2],
                                          ts[k])] :
               ps \in [1..len -> 1..Len(StatsPlaces)], ts \in [1..len -> StatsTimestamps]} :
           len \in 0..n}

StatsInit ==
    /\ SegIdle /\ ExtractIdle /\ LoadIdle /\ FilterIdle
    /\ MainIdle /\ NfzIdle /\ CoarsenIdle /\ CommuteIdle /\ HaversineIdle /\ RunIdle
    /\ reverse_geocoder \in Geocoders
    /\ pycountry \in CountryNames
    /\ stats_input \in StatsLists(MaxStatsCoords)
    /\ search_calls = <<>>
    /\ stats = <<>>
    /\ printed = <<>>
    /\ stats_pc = "start"

\* stats = compute_location_stats(coordinates)
ComputeLocationStats ==
    /\ stats_pc = "start"
    /\ LET computed == compute_location_stats(stats_input) IN
        /\ stats' = computed.value
        /\ search_calls' = computed.calls
    /\ stats_pc' = "computed"
    /\ UNCHANGED <<reverse_geocoder, pycountry, stats_input, printed,
                   seg_vars, extract_vars, load_vars, filter_vars, main_vars,
                   nfz_vars, coarsen_vars, commute_vars, haversine_vars, run_vars>>

\* print_stats(stats)
PrintStats ==
    /\ stats_pc = "computed"
    /\ printed' = print_stats(stats)
    /\ stats_pc' = "printed"
    /\ UNCHANGED <<reverse_geocoder, pycountry, stats_input, search_calls, stats,
                   seg_vars, extract_vars, load_vars, filter_vars, main_vars,
                   nfz_vars, coarsen_vars, commute_vars, haversine_vars, run_vars>>

StatsNext == ComputeLocationStats \/ PrintStats

SpecStats == StatsInit /\ [][StatsNext]_vars

-----------------------------------------------------------------------------
(* apply_date_filters and filter_no_fly_zones in both orders, as main could  *)
(* run them (cli.py applies the date filter first)                          *)

\* Indexes into NfzPlaces: inside the Chicago zone, north of both rectangles
\* and inside both rectangles.
CommutePlaces == {3, 5, 7}

CommuteTimestamps == 1..3

\* Lists in chronological order, as extract_coordinates returns them.
CommuteLists(n) ==
    UNION {{[k \in 1..len |->
                Coordinate(NfzPlaces[ps[k]][1], NfzPlaces[ps[k]][2], ts[k])] :
               ps \in [1..len -> CommutePlaces],
               ts \in {t \in [1..len -> CommuteTimestamps] :
                          \A i \in 1..(len - 1) : t[i] <= t[i + 1]}} :
           len \in 0..n}

CommuteBounds == {<<>>, <<2>>}

CommuteInit ==
    /\ SegIdle /\ ExtractIdle /\ LoadIdle /\ FilterIdle
    /\ MainIdle /\ CoarsenIdle /\ StatsIdle /\ HaversineIdle /\ RunIdle
    /\ NO_FLY_ZONES \in ZoneConfigurations
    /\ nfz_input = <<>>
    /\ nfz_filtered = <<>>
    /\ excluded_counts = NoCounts
    /\ nfz_pc = "idle"
    /\ commute_input \in CommuteLists(MaxCommuteCoords)
    /\ commute_start \in CommuteBounds
    /\ commute_end \in CommuteBounds
    /\ date_then_zones = <<>>
    /\ zones_once = NoResult
    /\ zones_then_date = <<>>
    /\ zones_twice = NoResult
    /\ commute_pc = "start"

\* The order of main: cli.py lines 203 and 208.
DateThenZones ==
    /\ commute_pc = "start"
    /\ LET dated == apply_date_filters(ListObject(1, commute_input),
                                       commute_start, commute_end)
       IN date_then_zones' = filter_no_fly_zones(dated.items).filtered
    /\ commute_pc' = "date_first"
    /\ UNCHANGED <<commute_input, commute_start, commute_end, zones_once,
                   zones_then_date, zones_twice, seg_vars, extract_vars, load_vars,
                   filter_vars, main_vars, nfz_vars, coarsen_vars, stats_vars,
                   haversine_vars, run_vars>>

\* The two calls in the other order.
ZonesThenDate ==
    /\ commute_pc = "date_first"
    /\ LET result == filter_no_fly_zones(commute_input) IN
        /\ zones_once' = result
        /\ zones_then_date' =
              apply_date_filters(ListObject(1, result.filtered),
                                 commute_start, commute_end).items
    /\ commute_pc' = "zones_first"
    /\ UNCHANGED <<commute_input, commute_start, commute_end, date_then_zones,
                   zones_twice, seg_vars, extract_vars, load_vars,
                   filter_vars, main_vars, nfz_vars, coarsen_vars, stats_vars,
                   haversine_vars, run_vars>>

\* filter_no_fly_zones on the list it kept.
ZonesAgain ==
    /\ commute_pc = "zones_first"
    /\ zones_twice' = filter_no_fly_zones(zones_once.filtered)
    /\ commute_pc' = "done"
    /\ UNCHANGED <<commute_input, commute_start, commute_end, date_then_zones,
                   zones_once, zones_then_date, seg_vars, extract_vars, load_vars,
                   filter_vars, main_vars, nfz_vars, coarsen_vars, stats_vars,
                   haversine_vars, run_vars>>

CommuteNext == DateThenZones \/ ZonesThenDate \/ ZonesAgain

SpecCommute == CommuteInit /\ [][CommuteNext]_vars

-----------------------------------------------------------------------------
(* The haversine formula on two points, in both directions *)

\* Whole degrees.
HaversineLatitudes == {-60, 0, 60}

HaversineLongitudes == {-120, 0, 120}

HaversineCoordinates ==
    {Coordinate(lat, lon, 0) : lat \in HaversineLatitudes, lon \in HaversineLongitudes}

HaversineInit ==
    /\ SegIdle /\ ExtractIdle /\ LoadIdle /\ FilterIdle
    /\ MainIdle /\ NfzIdle /\ CoarsenIdle /\ StatsIdle /\ CommuteIdle /\ RunIdle
    /\ haversine_points \in HaversineCoordinates \X HaversineCoordinates
    /\ vectorized = <<>>
    /\ pairwise = <<>>

\* One call on arrays of three: p to q, q to p and p to p.
HaversineVectorized ==
    /\ vectorized = <<>>
    /\ LET p == haversine_points[1]
           q == haversine_points[2]
       IN vectorized' =
            listed(haversine_vectorized_exact(
                       <<p.latitude, q.latitude, p.latitude>>,
                       <<p.longitude, q.longitude, p.longitude>>,
                       <<q.latitude, p.latitude, p.latitude>>,
                       <<q.longitude, p.longitude, p.longitude>>), 3)
    /\ UNCHANGED <<haversine_points, pairwise, seg_vars, extract_vars, load_vars,
                   filter_vars, main_vars, nfz_vars, coarsen_vars, stats_vars,
                   commute_vars, run_vars>>

\* Three calls: p to q, q to p and p to p.
HaversineDistanceKm ==
    /\ pairwise = <<>>
    /\ LET p == haversine_points[1]
           q == haversine_points[2]
       IN pairwise' = << _haversine_distance_km_exact(p, q),
                         _haversine_distance_km_exact(q, p),
                         _haversine_distance_km_exact(p, p) >>
    /\ UNCHANGED <<haversine_points, vectorized, seg_vars, extract_vars, load_vars,
                   filter_vars, main_vars, nfz_vars, coarsen_vars, stats_vars,
                   commute_vars, run_vars>>

HaversineNext == HaversineVectorized \/ HaversineDistanceKm

SpecHaversine == HaversineInit /\ [][HaversineNext]_vars

-----------------------------------------------------------------------------
(* A run of main *)

\* Flat records on the meridian 87.7 W: south of the Chicago zone (41.5 N),
\* inside it (41.8 N) and north of it (42.2 N) at 10:00 local time of day 1,
\* north of it at 10:00 of day 2, and a record without a timestamp.  South to
\* north is 77.8 km; the zone spans 41.6 N to 42.1 N.
RunEntries ==
    << [latitudeE7 |-> 415000000, longitudeE7 |-> -877000000,
        timestampMs |-> <<"118800000">>],
       [latitudeE7 |-> 418000000, longitudeE7 |-> -877000000,
        timestampMs |-> <<"118800000">>],
       [latitudeE7 |-> 422000000, longitudeE7 |-> -877000000,
        timestampMs |-> <<"118800000">>],
       [latitudeE7 |-> 422000000, longitudeE7 |-> -877000000,
        timestampMs |-> <<"205200000">>],
       [latitudeE7 |-> 415000000, longitudeE7 |-> -877000000] >>

\* The file: missing, something that is neither object nor list, or a list
\* of records.
RunFiles(n) ==
    {<<>>, <<JsonScalar>>}
        \cup UNION {{<<JsonList([k \in 1..len |-> RunEntries[ix[k]]])>> :
                        ix \in [1..len -> 1..Len(RunEntries)]} :
                    len \in 0..n}

\* <<--start-date, --end-date>>: none; an end date before every record; a
\* start date after day 1; an end date in no format known.
RunDates ==
    { << <<>>, <<>> >>, << <<>>, << <<"1970-01-02">> >> >>,
      << << <<"1970-01-03">> >>, <<>> >>, << <<>>, << <<"02/01/1970">> >> >> }

\* <<--no-prompt, sys.stdin.isatty()>>
RunTerminals == {<<TRUE, TRUE>>, <<FALSE, TRUE>>, <<FALSE, FALSE>>}

\* <<--exclude-no-fly-zones, --include-no-fly-zones>>: the two exclude each other.
RunNoFlyOptions == {<<FALSE, FALSE>>, <<TRUE, FALSE>>, <<FALSE, TRUE>>}

RunOutputs == {<<>>, << <<"out", "map.html">> >>}

\* The lines a prompt can end with.
Answers_yn == {"y", "n", ""}

TypedDates == {<<>>, <<"19700102">>, <<"19700103">>}

RunInit ==
    /\ SegIdle /\ ExtractIdle /\ LoadIdle /\ FilterIdle
    /\ MainIdle /\ NfzIdle /\ CoarsenIdle /\ StatsIdle /\ CommuteIdle /\ HaversineIdle
    /\ \E dates \in RunDates, terminal \in RunTerminals,
          coarsen \in {<<>>, <<TRUE>>, <<FALSE>>},
          no_fly \in RunNoFlyOptions, output \in RunOutputs :
        /\ args = Namespace(dates[1], dates[2], 50, terminal[1], coarsen,
                            no_fly[1], no_fly[2], output)
        /\ stdin_isatty = terminal[2]
    /\ input_file \in RunFiles(MaxRunEntries)
    /\ run_entries = <<>>
    /\ run_all_coordinates = <<>>
    /\ run_start = <<>>
    /\ run_end = <<>>
    /\ should_prompt = FALSE
    /\ apply_coarsening = FALSE
    /\ exclude_no_fly_zones = FALSE
    /\ run_coordinates = <<>>
    /\ run_raw = <<>>
    /\ run_trace = <<>>
    /\ run_message = <<>>
    /\ run_written = <<>>
    /\ run_pc = "start"

\* What a step of main leaves alone besides the variables it names.
RunFrame ==
    UNCHANGED <<args, stdin_isatty, input_file, seg_vars, extract_vars, load_vars,
                filter_vars, main_vars, nfz_vars, coarsen_vars, stats_vars,
                commute_vars, haversine_vars>>

\* raise SystemExit(message): nothing after it runs.
RunExit(stage, pc_after, count) ==
    IF count = 0
    THEN /\ run_message' = <<SystemExitMessage(stage)>>
         /\ run_pc' = "SystemExit"
    ELSE /\ run_message' = run_message
         /\ run_pc' = pc_after

\* resolve_input_path, entries = list(load_takeout_payload(input_path)) and
\* the test of entries.
RunLoadTakeoutPayload ==
    /\ run_pc = "start"
    /\ IF input_file = <<>>
       THEN /\ run_message' = <<"Input file not found">>
            /\ run_pc' = "SystemExit"
            /\ UNCHANGED <<run_entries, run_trace>>
       ELSE LET result == load_takeout_payload(input_file[1]) IN
            IF result.status = "ValueError"
            THEN /\ run_pc' = "ValueError"
                 /\ UNCHANGED <<run_entries, run_trace, run_message>>
            ELSE /\ run_entries' = result.entries
                 /\ run_trace' = Append(run_trace, Stage("load_takeout_payload",
                                                         Len(result.entries)))
                 /\ RunExit("load_takeout_payload", "loaded", Len(result.entries))
    /\ UNCHANGED <<run_all_coordinates, run_start, run_end, should_prompt,
                   apply_coarsening, exclude_no_fly_zones, run_coordinates, run_raw,
                   run_written>>
    /\ RunFrame

\* all_coordinates = extract_coordinates(entries) and the test of it.
RunExtractCoordinates ==
    /\ run_pc = "loaded"
    /\ LET result == extract_coordinates(run_entries) IN
       IF result.status = "ValueError"
       THEN /\ run_pc' = "ValueError"
            /\ UNCHANGED <<run_all_coordinates, run_trace, run_message>>
       ELSE /\ run_all_coordinates' = result.value
            /\ run_trace' = Append(run_trace, Stage("extract_coordinates",
                                                    Len(result.value)))
            /\ RunExit("extract_coordinates", "extracted", Len(result.value))
    /\ UNCHANGED <<run_entries, run_start, run_end, should_prompt, apply_coarsening,
                   exclude_no_fly_zones, run_coordinates, run_raw, run_written>>
    /\ RunFrame

\* start and end from the options; a ValueError of either leaves main.
RunParseDates ==
    /\ run_pc = "extracted"
    /\ LET parsed_start == date_option(args.start_date)
           parsed_end == date_option(args.end_date) IN
        IF parsed_start.ok /\ parsed_end.ok
        THEN /\ run_start' = parsed_start.value
             /\ run_end' = parsed_end.value
             /\ run_pc' = "dates"
        ELSE /\ UNCHANGED <<run_start, run_end>>
             /\ run_pc' = "ValueError"
    /\ UNCHANGED <<run_entries, run_all_coordinates, should_prompt, apply_coarsening,
                   exclude_no_fly_zones, run_coordinates, run_raw, run_trace,
                   run_message, run_written>>
    /\ RunFrame

\* should_prompt, apply_coarsening and exclude_no_fly_zones; each prompt that
\* is shown ends with one of the answers.
RunDecidePreferences ==
    /\ run_pc = "dates"
    /\ \E coarsen_answer \in Answers_yn, no_fly_answer \in Answers_yn :
        LET prompting == ~args.no_prompt /\ stdin_isatty
            coarsening == decide_coarsen_preference(args, prompting, coarsen_answer)
        IN /\ should_prompt' = prompting
           /\ apply_coarsening' = coarsening
           /\ exclude_no_fly_zones' =
                  no_fly_choice(coarsening, args, prompting, no_fly_answer)
    /\ run_pc' = "decided"
    /\ UNCHANGED <<run_entries, run_all_coordinates, run_start, run_end,
                   run_coordinates, run_raw, run_trace, run_message, run_written>>
    /\ RunFrame

\* if should_prompt: start, end = prompt_date_range(start, end, earliest, latest)
RunPromptDateRange ==
    /\ run_pc = "decided"
    /\ IF should_prompt
       THEN \E typed_start \in TypedDates, typed_end \in TypedDates :
                LET earliest == run_all_coordinates[1].timestamp
                    latest == run_all_coordinates[Len(run_all_coordinates)].timestamp
                    asked == prompt_date_range(run_start, run_end, earliest, latest,
                                               <<typed_start, typed_end>>)
                IN /\ asked.ok
                   /\ run_start' = asked.start
                   /\ run_end' = asked.end
       ELSE UNCHANGED <<run_start, run_end>>
    /\ run_pc' = "prompted"
    /\ UNCHANGED <<run_entries, run_all_coordinates, should_prompt, apply_coarsening,
                   exclude_no_fly_zones, run_coordinates, run_raw, run_trace,
                   run_message, run_written>>
    /\ RunFrame

\* coordinates = apply_date_filters(all_coordinates, start, end) and its test.
RunApplyDateFilters ==
    /\ run_pc = "prompted"
    /\ LET result == apply_date_filters(ListObject(0, run_all_coordinates),
                                        run_start, run_end).items IN
        /\ run_coordinates' = result
        /\ run_trace' = Append(run_trace, Stage("apply_date_filters", Len(result)))
        /\ RunExit("apply_date_filters", "filtered", Len(result))
    /\ UNCHANGED <<run_entries, run_all_coordinates, run_start, run_end, should_prompt,
                   apply_coarsening, exclude_no_fly_zones, run_raw, run_written>>
    /\ RunFrame

\* if exclude_no_fly_zones: coordinates, excluded_counts =
\* filter_no_fly_zones(coordinates), and its test.
RunFilterNoFlyZones ==
    /\ run_pc = "filtered"
    /\ IF exclude_no_fly_zones
       THEN LET result == filter_no_fly_zones(run_coordinates).filtered IN
            /\ run_coordinates' = result
            /\ run_trace' = Append(run_trace, Stage("filter_no_fly_zones", Len(result)))
            /\ RunExit("filter_no_fly_zones", "zoned", Len(result))
       ELSE /\ run_pc' = "zoned"
            /\ UNCHANGED <<run_coordinates, run_trace, run_message>>
    /\ UNCHANGED <<run_entries, run_all_coordinates, run_start, run_end, should_prompt,
                   apply_coarsening, exclude_no_fly_zones, run_raw, run_written>>
    /\ RunFrame

\* if apply_coarsening: coordinates = coarsen_coordinates(coordinates), with
\* the defaults: windows of 5, 10 samples, bridges up to 150 km.
RunCoarsenCoordinates ==
    /\ run_pc = "zoned"
    /\ IF apply_coarsening
       THEN \E result \in coarsen_coordinates(in_degrees(run_coordinates), 5, 10, 150) :
            /\ run_raw' = run_coordinates
            /\ run_coordinates' = in_e7(result.coarsened)
            /\ run_trace' = Append(run_trace, Stage("coarsen_coordinates",
                                                    Len(result.coarsened)))
       ELSE UNCHANGED <<run_coordinates, run_raw, run_trace>>
    /\ run_pc' = "coarsened"
    /\ UNCHANGED <<run_entries, run_all_coordinates, run_start, run_end, should_prompt,
                   apply_coarsening, exclude_no_fly_zones, run_message, run_written>>
    /\ RunFrame

\* build_segments(coordinates, args.jump_threshold_km) and the test of segments.
RunBuildSegments ==
    /\ run_pc = "coarsened"
    /\ LET result == build_segments(run_coordinates, args.jump_threshold_km) IN
        /\ run_trace' = Append(run_trace, Stage("build_segments", Len(result.segments)))
        /\ RunExit("build_segments", "segmented", Len(result.segments))
    /\ UNCHANGED <<run_entries, run_all_coordinates, run_start, run_end, should_prompt,
                   apply_coarsening, exclude_no_fly_zones, run_coordinates, run_raw,
                   run_written>>
    /\ RunFrame

\* The page is rendered, the statistics printed and the file written.
RunWriteText ==
    /\ run_pc = "segmented"
    /\ run_written' = <<output_path_of(args, apply_coarsening, exclude_no_fly_zones)>>
    /\ run_pc' = "written"
    /\ UNCHANGED <<run_entries, run_all_coordinates, run_start, run_end, should_prompt,
                   apply_coarsening, exclude_no_fly_zones, run_coordinates, run_raw,
                   run_trace, run_message>>
    /\ RunFrame

RunNext ==
    \/ RunLoadTakeoutPayload \/ RunExtractCoordinates \/ RunParseDates
    \/ RunDecidePreferences \/ RunPromptDateRange \/ RunApplyDateFilters
    \/ RunFilterNoFlyZones \/ RunCoarsenCoordinates \/ RunBuildSegments
    \/ RunWriteText

SpecRun == RunInit /\ [][RunNext]_vars

-----------------------------------------------------------------------------
(* Properties of build_segments *)

SegDone == seg_pc = "done"

NumCoords == Len(coordinates)

\* The distance in metres between the i-th and the (i+1)-th input coordinate.
PairDistance(i) ==
    haversine_metres(coordinates[i].latitude, coordinates[i].longitude,
                     coordinates[i + 1].latitude, coordinates[i + 1].longitude)

ThresholdMetres == threshold_km * 1000

\* The i-th consecutive pair is farther apart than threshold_km.
IsBreak(i) == PairDistance(i) > ThresholdMetres

\* A run is a maximal stretch with no break inside: it starts at a, ends at RunEnd(a).
RunStarts == {a \in 1..NumCoords : a = 1 \/ IsBreak(a - 1)}

RunEnd(a) ==
    CHOOSE b \in a..NumCoords :
        /\ b = NumCoords \/ IsBreak(b)
        /\ \A j \in a..(b - 1) : ~IsBreak(j)

LongRunStarts == {a \in RunStarts : RunEnd(a) > a}

\* The k-th smallest element of a set of integers.
KthSmallest(S, k) == CHOOSE a \in S : Cardinality({x \in S : x < a}) = k - 1

\* The i-th input coordinate is alone in its run.
AloneInRun(i) ==
    /\ i = 1 \/ IsBreak(i - 1)
    /\ i = NumCoords \/ IsBreak(i)

\* C1: every returned segment has at least 2 coordinates and no two
\* consecutive coordinates of a returned segment are farther apart than
\* threshold_km.
C1_SegmentsWellFormed ==
    SegDone =>
        \A s \in 1..Len(seg_result.segments_coords) :
            LET seg == seg_result.segments_coords[s] IN
            /\ Len(seg) >= 2
            /\ \A j \in 1..(Len(seg) - 1) :
                   haversine_metres(seg[j].latitude, seg[j].longitude,
                                    seg[j + 1].latitude, seg[j + 1].longitude)
                       <= ThresholdMetres

\* Two segments were returned, with a break between them.
C1_Witness ==
    /\ SegDone
    /\ Len(seg_result.segments_coords) = 2
    /\ \E i \in 1..(NumCoords - 1) : IsBreak(i)

\* C2: the returned segments are exactly the runs of two or more coordinates,
\* in input order, each the unchanged sub-list of the input; coordinates alone
\* in their run are in no segment.
C2_SegmentsPartitionInput ==
    SegDone =>
        /\ Len(seg_result.segments_coords) = Cardinality(LongRunStarts)
        /\ \A k \in 1..Len(seg_result.segments_coords) :
               LET a == KthSmallest(LongRunStarts, k) IN
               seg_result.segments_coords[k] = SubSeq(coordinates, a, RunEnd(a))

\* A segment was returned, a coordinate alone in its run was dropped, and a
\* pair lying exactly at the threshold stayed inside a segment.
C2_Witness ==
    /\ SegDone
    /\ Len(seg_result.segments_coords) >= 1
    /\ \E i \in 1..NumCoords : AloneInRun(i)
    /\ \E i \in 1..(NumCoords - 1) : PairDistance(i) = ThresholdMetres

\* The flight threshold the claim states, in km.
StatedFlightThresholdKm(origin, dest) ==
    LET inside(c) == /\ 245000000 <= c.latitude /\ c.latitude <= 495000000
                     /\ -1250000000 <= c.longitude /\ c.longitude <= -660000000
    IN IF inside(origin) /\ inside(dest) THEN 230 ELSE 100

StatedFlightThresholdMetres(i) ==
    StatedFlightThresholdKm(coordinates[i], coordinates[i + 1]) * 1000

\* Pairs that exceed threshold_km and reach the flight threshold.
FlightPairsAtLeast ==
    {i \in 1..(NumCoords - 1) :
        IsBreak(i) /\ PairDistance(i) >= StatedFlightThresholdMetres(i)}

\* Pairs that exceed threshold_km and exceed the flight threshold.
FlightPairsExceeding ==
    {i \in 1..(NumCoords - 1) :
        IsBreak(i) /\ PairDistance(i) > StatedFlightThresholdMetres(i)}

FlightsAre(S) ==
    /\ Len(seg_result.flights) = Cardinality(S)
    /\ \A k \in 1..Len(seg_result.flights) :
           LET i == KthSmallest(S, k) IN
           seg_result.flights[k] = <<coordinates[i], coordinates[i + 1]>>

\* C3 (as amended): a flight (point i, point i+1) is recorded for exactly the
\* consecutive pairs whose distance exceeds threshold_km and is at least the
\* flight threshold, 230 km inside the contiguous-US box and 100 km otherwise.
C3_FlightsAtLeastThreshold == SegDone => FlightsAre(FlightPairsAtLeast)

\* C3 (as stated): a flight is recorded for exactly the pairs whose distance
\* exceeds threshold_km and exceeds the flight threshold.
C3_FlightsExceedThreshold == SegDone => FlightsAre(FlightPairsExceeding)

\* A flight inside the box, a flight across its border, and a break inside
\* the box that is no flight.
C3_Witness ==
    /\ SegDone
    /\ \E i, j, k \in 1..(NumCoords - 1) :
        /\ i \in FlightPairsAtLeast /\ StatedFlightThresholdMetres(i) = 230000
        /\ j \in FlightPairsAtLeast /\ StatedFlightThresholdMetres(j) = 100000
        /\ IsBreak(k) /\ k \notin FlightPairsAtLeast

\* C4: a break that reaches its flight threshold is recorded as a flight even
\* when one of its endpoints is alone in its run (and so in no segment), and
\* the endpoints of a flight are never adjacent inside a returned segment.
C4_FlightsIndependentOfSegments ==
    SegDone =>
        /\ \A i \in FlightPairsAtLeast :
               (AloneInRun(i) \/ AloneInRun(i + 1)) =>
                   \E k \in 1..Len(seg_result.flights) :
                       seg_result.flights[k] = <<coordinates[i], coordinates[i + 1]>>
        /\ \A k \in 1..Len(seg_result.flights) :
               \A s \in 1..Len(seg_result.segments_coords) :
                   LET seg == seg_result.segments_coords[s] IN
                   \A j \in 1..(Len(seg) - 1) :
                       <<seg[j], seg[j + 1]>> # seg_result.flights[k]

\* A segment was returned, and a flight was recorded whose destination is in
\* no segment.
C4_Witness ==
    /\ SegDone
    /\ Len(seg_result.segments_coords) >= 1
    /\ \E i \in FlightPairsAtLeast :
        /\ AloneInRun(i + 1)
        /\ ~AloneInRun(i)
        /\ \E k \in 1..Len(seg_result.flights) :
               seg_result.flights[k] = <<coordinates[i], coordinates[i + 1]>>

\* C5: with fewer than 2 coordinates build_segments returns empty segment
\* lists and an empty flight list and raises no error.
C5_FewerThanTwoIsEmpty ==
    (SegDone /\ NumCoords < 2) =>
        seg_result = [status |-> "ok", segments |-> <<>>,
                      segments_coords |-> <<>>, flights |-> <<>>]

\* The call was made with no coordinate at all.
C5_Witness == SegDone /\ NumCoords = 0 /\ seg_result.status = "ok"

\* The distance in metres between the p-th and the (p+1)-th coordinate of
\* the s-th returned segment.
SegmentPairDistance(s, p) ==
    LET segment == seg_result.segments_coords[s] IN
    haversine_metres(segment[p].latitude, segment[p].longitude,
                     segment[p + 1].latitude, segment[p + 1].longitude)

RECURSIVE SumAlongSegment(_, _)
SumAlongSegment(s, p) ==
    IF p >= Len(seg_result.segments_coords[s]) THEN 0
    ELSE SegmentPairDistance(s, p) + SumAlongSegment(s, p + 1)

RECURSIVE SumOverSegments(_)
SumOverSegments(s) ==
    IF s > Len(seg_result.segments_coords) THEN 0
    ELSE SumAlongSegment(s, 1) + SumOverSegments(s + 1)

RECURSIVE PairsInSegments(_)
PairsInSegments(s) ==
    IF s > Len(seg_result.segments_coords) THEN 0
    ELSE (Len(seg_result.segments_coords[s]) - 1) + PairsInSegments(s + 1)

DistanceDone == SegDone /\ distance_km # <<>>

\* C22: the total distance is the sum of the consecutive-pair distances
\* inside the segments build_segments returned for the same list and
\* threshold: the segments hold as many pairs as the input has pairs within
\* the threshold, none of them above it.
C22_DistanceIsSumOverSegments ==
    DistanceDone =>
        /\ distance_km[1] = SumOverSegments(1)
        /\ PairsInSegments(1) = Cardinality({i \in 1..(NumCoords - 1) : ~IsBreak(i)})
        /\ \A s \in 1..Len(seg_result.segments_coords) :
            \A q \in 1..(Len(seg_result.segments_coords[s]) - 1) :
                SegmentPairDistance(s, q) <= ThresholdMetres

\* Two segments either side of a break, one of them holding a pair exactly
\* at the threshold, and a distance that is not zero.
C22_Witness ==
    /\ DistanceDone
    /\ Len(seg_result.segments_coords) >= 2
    /\ \E i \in 1..(NumCoords - 1) : PairDistance(i) = ThresholdMetres
    /\ \E i \in 1..(NumCoords - 1) : IsBreak(i)
    /\ distance_km[1] > 0

-----------------------------------------------------------------------------
(* Properties of extract_coordinates *)

ExtractEnded == extract_pc \in {"returned", "ValueError"}

\* The shape an entry is read as, decided in the order flat, timelinePath, visit.
StatedShape(entry) ==
    IF "latitudeE7" \in DOMAIN entry /\ "longitudeE7" \in DOMAIN entry THEN "flat"
    ELSE IF "timelinePath" \in DOMAIN entry THEN "timelinePath"
    ELSE IF "visit" \in DOMAIN entry /\ "topCandidate" \in DOMAIN entry["visit"]
         THEN "visit"
    ELSE "none"

NonEmptyAt(entry, key) == key \in DOMAIN entry /\ Len(entry[key]) > 0

\* The entry holds the timestamp field of its shape.
HasTimestamp(entry) ==
    IF StatedShape(entry) = "flat"
    THEN NonEmptyAt(entry, "timestamp") \/ NonEmptyAt(entry, "timestampMs")
    ELSE NonEmptyAt(entry, "startTime")

\* The entry lacks its timestamp field or matches none of the three shapes.
IsSkipped(entry) == StatedShape(entry) = "none" \/ ~HasTimestamp(entry)

\* The geo-point strings the entry's shape reads, empty ones left out.
GeoStringsRead(entry) ==
    IF StatedShape(entry) = "timelinePath"
    THEN {entry["timelinePath"][k]["point"] :
             k \in {j \in 1..Len(entry["timelinePath"]) :
                       NonEmptyAt(entry["timelinePath"][j], "point")}}
    ELSE IF StatedShape(entry) = "visit"
              /\ NonEmptyAt(entry["visit"]["topCandidate"], "placeLocation")
         THEN {entry["visit"]["topCandidate"]["placeLocation"]}
         ELSE {}

\* The number of coordinates the claim gives the entry.
StatedCount(entry) ==
    IF IsSkipped(entry) THEN 0
    ELSE IF StatedShape(entry) = "flat" THEN 1
    ELSE IF StatedShape(entry) = "timelinePath"
         THEN Cardinality({j \in 1..Len(entry["timelinePath"]) :
                              NonEmptyAt(entry["timelinePath"][j], "point")})
    ELSE IF NonEmptyAt(entry["visit"]["topCandidate"], "placeLocation") THEN 1 ELSE 0

RECURSIVE StatedTotal(_, _)
StatedTotal(entry_list, k) ==
    IF k > Len(entry_list) THEN 0
    ELSE StatedCount(entry_list[k]) + StatedTotal(entry_list, k + 1)

\* The timestamp of the entry's shape.
RawTimestampOf(entry) ==
    IF StatedShape(entry) = "flat"
    THEN (IF NonEmptyAt(entry, "timestamp") THEN entry["timestamp"]
          ELSE entry["timestampMs"])
    ELSE entry["startTime"]

\* A string the entry's shape reads does not parse.
HasUnparsable(entry) ==
    /\ ~IsSkipped(entry)
    /\ \/ ~parse_timestamp(RawTimestampOf(entry)).ok
       \/ \E g \in GeoStringsRead(entry) : ~parse_geo_point(g).ok

Timestamps(list) == {list[i].timestamp : i \in 1..Len(list)}

StampedAt(list, t) == SelectSeq(list, LAMBDA coord : coord.timestamp = t)

\* C6: the list extract_coordinates returns is non-decreasing in timestamp,
\* and coordinates with equal timestamps keep the relative order in which
\* they were met in the input.
C6_SortedAndStable ==
    extract_pc = "returned" =>
        /\ Len(all_coordinates) = Len(records)
        /\ \A i \in 1..(Len(all_coordinates) - 1) :
               all_coordinates[i].timestamp <= all_coordinates[i + 1].timestamp
        /\ \A t \in Timestamps(records) :
               StampedAt(all_coordinates, t) = StampedAt(records, t)

\* The sort moved a coordinate, and two different coordinates share a timestamp.
C6_Witness ==
    /\ extract_pc = "returned"
    /\ all_coordinates # records
    /\ \E i \in 1..(Len(all_coordinates) - 1) :
        /\ all_coordinates[i].timestamp = all_coordinates[i + 1].timestamp
        /\ all_coordinates[i] # all_coordinates[i + 1]

\* C7: an entry that lacks its timestamp field or matches no shape never makes
\* extract_coordinates raise and gives no coordinate; every other entry gives
\* one coordinate when flat, one per timelinePath element that has a point,
\* one when a visit with a placeLocation; the shape is the first that matches
\* in the order flat, timelinePath, visit.
C7_SkippedOrCounted ==
    ExtractEnded =>
        /\ extract_pc = "ValueError" =>
               \E k \in 1..Len(payload) : HasUnparsable(payload[k])
        /\ extract_pc = "returned" =>
               Len(all_coordinates) = StatedTotal(payload, 1)

\* A returned list of two or more coordinates from a payload that holds an
\* entry without timestamp whose geo-point does not parse and an entry that
\* matches two shapes.
C7_Witness ==
    /\ extract_pc = "returned"
    /\ Len(all_coordinates) >= 2
    /\ \E k \in 1..Len(payload) :
        /\ IsSkipped(payload[k])
        /\ "timelinePath" \in DOMAIN payload[k]
        /\ \E j \in 1..Len(payload[k]["timelinePath"]) :
               ~parse_geo_point(payload[k]["timelinePath"][j]["point"]).ok
    /\ \E k \in 1..Len(payload) :
        /\ StatedShape(payload[k]) = "flat"
        /\ "timelinePath" \in DOMAIN payload[k]
        /\ ~IsSkipped(payload[k])

\* C9: a geo-point string that does not parse as two floats, in an entry read
\* as timelinePath or visit that has a timestamp, makes extract_coordinates
\* raise: nothing is returned, the coordinates of earlier entries included.
C9_BadGeoPointIsFatal ==
    (/\ ExtractEnded
     /\ \E k \in 1..Len(payload) :
            /\ HasTimestamp(payload[k])
            /\ \E g \in GeoStringsRead(payload[k]) : ~parse_geo_point(g).ok)
        => (extract_pc = "ValueError" /\ all_coordinates = <<>>)

\* The call raised on a visit entry after coordinates had been taken from
\* earlier entries.
C9_Witness ==
    /\ extract_pc = "ValueError"
    /\ records # <<>>
    /\ \E k \in 1..Len(payload) :
        /\ StatedShape(payload[k]) = "visit"
        /\ HasTimestamp(payload[k])
        /\ \E g \in GeoStringsRead(payload[k]) : ~parse_geo_point(g).ok
    /\ \A k \in 1..Len(payload) :
           StatedShape(payload[k]) # "visit" => ~HasUnparsable(payload[k])

-----------------------------------------------------------------------------
(* Properties of load_takeout_payload *)

LoadEnded == load_pc \in {"exhausted", "ValueError"}

HasLocations == top.kind = "object" /\ "locations" \in DOMAIN top.value

HasTimelinePath == top.kind = "object" /\ "timelinePath" \in DOMAIN top.value

IsList == top.kind = "list"

\* C8: load_takeout_payload fails with the unrecognised-payload error, yielding
\* nothing, exactly when the top-level value is neither an object with a
\* locations key, nor an object with a timelinePath key, nor a list; otherwise
\* it yields the elements of locations, else the object itself, else the
\* elements of the list, without error.
C8_UnrecognisedExactly ==
    LoadEnded =>
        /\ load_pc = "ValueError" <=> ~(HasLocations \/ HasTimelinePath \/ IsList)
        /\ load_pc = "ValueError" => entries = <<>>
        /\ HasLocations => entries = top.value["locations"]
        /\ (HasTimelinePath /\ ~HasLocations) => entries = <<top.value>>
        /\ IsList => entries = top.value

\* The call failed on an object that holds neither key.
C8_Witness ==
    /\ load_pc = "ValueError"
    /\ top.kind = "object"
    /\ DOMAIN top.value # {}

-----------------------------------------------------------------------------
(* Properties of apply_date_filters *)

FilterDone == filter_pc = "done"

\* start <= ts <= end, an absent bound imposing nothing.
InStatedRange(ts) ==
    /\ start = <<>> \/ start[1] <= ts
    /\ end = <<>> \/ ts <= end[1]

\* C10: apply_date_filters returns exactly the order-preserving sub-list of the
\* coordinates with start <= ts <= end, both bounds inclusive, an absent bound
\* imposing no constraint; with both bounds absent the result equals the input
\* and is a list of its own.
C10_InclusiveRange ==
    FilterDone =>
        /\ filtered.items =
               SelectSeq(filter_input.items, LAMBDA coord : InStatedRange(coord.timestamp))
        /\ (start = <<>> /\ end = <<>>) =>
               (filtered.items = filter_input.items /\ filtered.oid # filter_input.oid)

\* Both bounds are given, a coordinate stamped exactly at each bound is kept
\* and one outside is dropped.
C10_Witness ==
    /\ FilterDone
    /\ start # <<>> /\ end # <<>>
    /\ \E i, j \in 1..Len(filtered.items) :
        /\ filtered.items[i].timestamp = start[1]
        /\ filtered.items[j].timestamp = end[1]
        /\ start[1] < end[1]
    /\ Len(filtered.items) < Len(filter_input.items)

-----------------------------------------------------------------------------
(* Properties of the date filter of main *)

MainFiltered == main_pc \in {"filtered", "SystemExit"}

\* The local calendar day of an instant, counted from 1970-01-01 as day 0.
LocalDate(ts) == (ts + LOCAL_UTC_OFFSET_MS) \div 86400000

DateGiven(arg) == arg # <<>> /\ arg[1] # <<>>

\* The day a date option names, once it has parsed.
DayNamed(arg) ==
    LET lit == strip(arg[1])[1] IN
    IF lit \in DOMAIN DashedDates THEN DashedDates[lit] ELSE CompactDates[lit]

\* The record is dated on or after --start-date and on or before --end-date.
OnStatedDays(coord) ==
    /\ DateGiven(start_date) => DayNamed(start_date) <= LocalDate(coord.timestamp)
    /\ DateGiven(end_date) => LocalDate(coord.timestamp) <= DayNamed(end_date)

\* C11: run without prompting, main keeps every record whose local calendar
\* date is on or after --start-date and on or before --end-date, whatever its
\* hour on the end date.
C11_KeepsWholeEndDay ==
    MainFiltered =>
        \A i \in 1..Len(main_all_coordinates) :
            OnStatedDays(main_all_coordinates[i]) =>
                \E j \in 1..Len(main_coordinates) :
                    main_coordinates[j] = main_all_coordinates[i]

-----------------------------------------------------------------------------
(* Properties of filter_no_fly_zones *)

NfzDone == nfz_pc = "done"

\* min <= value <= max on both axes.
InsideZone(k, coord) ==
    /\ NO_FLY_ZONES[k].min_lat <= coord.latitude
    /\ coord.latitude <= NO_FLY_ZONES[k].max_lat
    /\ NO_FLY_ZONES[k].min_lon <= coord.longitude
    /\ coord.longitude <= NO_FLY_ZONES[k].max_lon

InsideSomeZone(coord) == \E k \in 1..Len(NO_FLY_ZONES) : InsideZone(k, coord)

\* The coordinate is attributed to the k-th zone: the first that contains it.
AttributedTo(k, coord) ==
    /\ InsideZone(k, coord)
    /\ \A j \in 1..(k - 1) : ~InsideZone(j, coord)

CountOf(name) == IF name \in DOMAIN excluded_counts THEN excluded_counts[name] ELSE 0

RECURSIVE SumOver(_, _)
SumOver(counts, names) ==
    IF names = {} THEN 0
    ELSE LET n == CHOOSE x \in names : TRUE IN counts[n] + SumOver(counts, names \ {n})

\* C12: a coordinate inside a zone (bounds inclusive) is dropped and counted
\* once, for the first zone in configured order that contains it; every other
\* coordinate is kept in order.  The kept list holds no coordinate inside any
\* zone, and its length plus the sum of the counts is the input length.
C12_FirstZoneCounted ==
    NfzDone =>
        /\ nfz_filtered = SelectSeq(nfz_input, LAMBDA coord : ~InsideSomeZone(coord))
        /\ \A k \in 1..Len(NO_FLY_ZONES) :
               CountOf(NO_FLY_ZONES[k].name) =
                   Cardinality({i \in 1..Len(nfz_input) : AttributedTo(k, nfz_input[i])})
        /\ \A name \in DOMAIN excluded_counts :
               \E k \in 1..Len(NO_FLY_ZONES) : NO_FLY_ZONES[k].name = name
        /\ \A j \in 1..Len(nfz_filtered) : ~InsideSomeZone(nfz_filtered[j])
        /\ Len(nfz_filtered) + SumOver(excluded_counts, DOMAIN excluded_counts)
               = Len(nfz_input)

\* A coordinate on a corner of the first zone and one inside two zones were
\* dropped, the latter counted for the first of the two, and one was kept.
C12_Witness ==
    /\ NfzDone
    /\ Len(NO_FLY_ZONES) = 2
    /\ \E i \in 1..Len(nfz_input) :
        /\ nfz_input[i].latitude = NO_FLY_ZONES[1].min_lat
        /\ nfz_input[i].longitude = NO_FLY_ZONES[1].min_lon
    /\ \E i \in 1..Len(nfz_input) :
        /\ InsideZone(1, nfz_input[i]) /\ InsideZone(2, nfz_input[i])
    /\ CountOf(NO_FLY_ZONES[1].name) = 2
    /\ CountOf(NO_FLY_ZONES[2].name) = 0
    /\ Len(nfz_filtered) = 1

-----------------------------------------------------------------------------
(* Properties of coarsen_coordinates *)

CoarsenDone == coarsen_pc = "done"

InputDays == {LocalDate(coarsen_input[k].timestamp) : k \in 1..Len(coarsen_input)}

\* 12:00:00 local time of a day, in ms since the epoch.
StatedMidday(day) == day * 86400000 + 43200000 - LOCAL_UTC_OFFSET_MS

\* The returned list as the log says it was put together: for each day in
\* turn, the bridge before it and then its points.
RECURSIVE AssembledFrom(_)
AssembledFrom(k) ==
    IF k > Len(day_log) THEN <<>>
    ELSE day_log[k].bridge \o day_log[k].day_points \o AssembledFrom(k + 1)

\* The day-sample points returned: what is returned less the bridge points.
SampleDays ==
    IF day_log = <<>>
    THEN {LocalDate(coarsened[k].timestamp) : k \in 1..Len(coarsened)}
    ELSE UNION {{LocalDate(day_log[k].day_points[j].timestamp) :
                    j \in 1..Len(day_log[k].day_points)} : k \in 1..Len(day_log)}

\* C13: the local calendar days of the day-sample points coarsen_coordinates
\* returns (bridge points ignored) are the local calendar days of the input,
\* as many and the same: no input day disappears and no new day appears.
C13_DaysPreserved ==
    CoarsenDone =>
        /\ day_log # <<>> => coarsened = AssembledFrom(1)
        /\ SampleDays = InputDays
        /\ Cardinality(SampleDays) = Cardinality(InputDays)

\* The input holds points of two days, one in the last millisecond of a day
\* and one in the first of the next, and a bridge was put between the days.
C13_Witness ==
    /\ CoarsenDone
    /\ Cardinality(InputDays) = 2
    /\ \E i, j \in 1..Len(coarsen_input) :
           coarsen_input[j].timestamp = coarsen_input[i].timestamp + 1
           /\ LocalDate(coarsen_input[j].timestamp) = LocalDate(coarsen_input[i].timestamp) + 1
    /\ Len(day_log) = 2 /\ day_log[2].bridge # <<>>

\* C14: for an input of any length, a single coordinate included, every
\* coordinate coarsen_coordinates returns is stamped 12:00:00 local time of a
\* calendar day present in the input.
C14_AllAtMidday ==
    CoarsenDone =>
        \A k \in 1..Len(coarsened) :
            \E day \in InputDays : coarsened[k].timestamp = StatedMidday(day)

\* The indices of the input coordinates of a local day.
IndicesOn(day) ==
    {i \in 1..Len(coarsen_input) : LocalDate(coarsen_input[i].timestamp) = day}

\* The coordinates of a day in timestamp order, those of one timestamp in
\* input order: the r-th of them is the input coordinate of this index.
InTimeOrder(day) ==
    [r \in 1..Cardinality(IndicesOn(day)) |->
        CHOOSE i \in IndicesOn(day) :
            Cardinality({j \in IndicesOn(day) :
                            \/ coarsen_input[j].timestamp < coarsen_input[i].timestamp
                            \/ /\ coarsen_input[j].timestamp = coarsen_input[i].timestamp
                               /\ j < i}) = r - 1]

CeilDiv(n, d) == (n + d - 1) \div d

\* The centroid of the coordinates order[from..to] of the input.
Centroid(order, from, to) ==
    << RatDiv(RatSum([k \in 1..(to - from + 1) |->
                         coarsen_input[order[from + k - 1]].latitude], 1),
              Rat(to - from + 1, 1)),
       RatDiv(RatSum([k \in 1..(to - from + 1) |->
                         coarsen_input[order[from + k - 1]].longitude], 1),
              Rat(to - from + 1, 1)) >>

\* The point at fraction num / den of the straight line from p to q,
\* as <<latitude, longitude>>.
AlongLine(p, q, num, den) ==
    << RatAdd(p[1], RatMul(RatSub(q[1], p[1]), Rat(num, den))),
       RatAdd(p[2], RatMul(RatSub(q[2], p[2]), Rat(num, den))) >>

\* C16: a day of n >= 1 points is reduced to ceil(n / window_size) anchors, the
\* centroids of consecutive windows in timestamp order, the last possibly
\* smaller; its output is the single centroid when there is one anchor and
\* max(min_samples, anchor_count) points otherwise; with two anchors the
\* samples are evenly spaced on the straight line from the first anchor to the
\* second, both included.
C16_AnchorsAndSamples ==
    CoarsenDone =>
        /\ Len(coarsen_input) = 1 =>
               /\ Len(coarsened) = 1
               /\ as_latlon(coarsened[1]) = as_latlon(coarsen_input[1])
        /\ Len(coarsen_input) >= 2 =>
               /\ coarsened = AssembledFrom(1)
               /\ {day_log[k].day : k \in 1..Len(day_log)} = InputDays
               /\ Len(day_log) = Cardinality(InputDays)
               /\ \A k \in 1..Len(day_log) :
                      LET entry == day_log[k]
                          n == Cardinality(IndicesOn(entry.day))
                          anchor_count == CeilDiv(n, window_size)
                          sample_count == Len(entry.day_points)
                      IN /\ n >= 1
                         /\ Len(entry.anchors) = anchor_count
                         /\ \A w \in 1..anchor_count :
                                entry.anchors[w] =
                                    Centroid(InTimeOrder(entry.day),
                                             (w - 1) * window_size + 1,
                                             min(w * window_size, n))
                         /\ anchor_count = 1 =>
                                /\ sample_count = 1
                                /\ as_latlon(entry.day_points[1]) = entry.anchors[1]
                         /\ anchor_count > 1 =>
                                sample_count = max(min_samples, anchor_count)
                         /\ anchor_count = 2 =>
                                \A j \in 1..sample_count :
                                    as_latlon(entry.day_points[j]) =
                                        AlongLine(entry.anchors[1], entry.anchors[2],
                                                  j - 1, sample_count - 1)

\* A day of three points and windows of two gives two different anchors, the
\* second of a single point, and four samples.
C16_Witness ==
    /\ CoarsenDone
    /\ window_size = 2 /\ min_samples = 4
    /\ \E k \in 1..Len(day_log) :
        /\ Cardinality(IndicesOn(day_log[k].day)) = 3
        /\ Len(day_log[k].anchors) = 2
        /\ day_log[k].anchors[1] # day_log[k].anchors[2]
        /\ Len(day_log[k].day_points) = 4
        /\ as_latlon(day_log[k].day_points[4]) = day_log[k].anchors[2]

\* The k-th day of the log or the day before it came out of polyfit.
Fitted(k) == Len(day_log[k].anchors) >= 3 \/ Len(day_log[k - 1].anchors) >= 3

LastPointBefore(k) == day_log[k - 1].day_points[Len(day_log[k - 1].day_points)]

FirstPointOf(k) == day_log[k].day_points[1]

\* C17: the days follow one another in ascending order; before the points of
\* every day but the first stand exactly 5 bridge points when the distance from
\* the last point of the day before to the first point of the day is <=
\* bridge_threshold_km, and none when it is greater; they lie at 1/6..5/6 of
\* the straight line between the two points and carry the midday of the later
\* day.  (Where polyfit made one of the two points and the exact distance
\* equals the threshold, rounding decides.)
C17_BridgesBetweenDays ==
    (CoarsenDone /\ Len(coarsen_input) >= 2) =>
        /\ coarsened = AssembledFrom(1)
        /\ \A k \in 1..(Len(day_log) - 1) : day_log[k].day < day_log[k + 1].day
        /\ day_log[1].bridge = <<>>
        /\ \A k \in 2..Len(day_log) :
               LET bridge == day_log[k].bridge
                   distance == _haversine_distance_km(LastPointBefore(k), FirstPointOf(k))
                   threshold == Rat(bridge_threshold_km, 1)
               IN /\ Len(bridge) \in {0, 5}
                  /\ ~RatLeq(distance, threshold) => Len(bridge) = 0
                  /\ (RatLeq(distance, threshold) /\ distance # threshold) =>
                         Len(bridge) = 5
                  /\ (distance = threshold /\ ~Fitted(k)) => Len(bridge) = 5
                  /\ \A j \in 1..Len(bridge) :
                         /\ as_latlon(bridge[j]) =
                                AlongLine(as_latlon(LastPointBefore(k)),
                                          as_latlon(FirstPointOf(k)), j, 6)
                         /\ bridge[j].timestamp = StatedMidday(day_log[k].day)

\* Five bridge points join two days whose facing points are apart.
C17_Witness ==
    /\ CoarsenDone
    /\ \E k \in 2..Len(day_log) :
        /\ Len(day_log[k].bridge) = 5
        /\ as_latlon(LastPointBefore(k)) # as_latlon(FirstPointOf(k))
        /\ day_log[k].bridge[1] # day_log[k].bridge[5]

\* The number of samples the coordinates of a day are turned into: one for
\* a single window, otherwise min_samples or the number of windows if that
\* is more.
SamplesOf(day) ==
    LET windows == CeilDiv(Cardinality(IndicesOn(day)), window_size) IN
    IF windows = 1 THEN 1
    ELSE IF min_samples >= windows THEN min_samples ELSE windows

RECURSIVE SamplesOfAll(_)
SamplesOfAll(days) ==
    IF days = {} THEN 0
    ELSE LET day == CHOOSE d \in days : TRUE IN
         SamplesOf(day) + SamplesOfAll(days \ {day})

BridgesMade == Cardinality({k \in 1..Len(day_log) : day_log[k].bridge # <<>>})

C27_OutputChronological ==
    CoarsenDone =>
        /\ \A k \in 1..(Len(coarsened) - 1) :
            coarsened[k].timestamp <= coarsened[k + 1].timestamp
        /\ day_log # <<>> => coarsened = AssembledFrom(1)
        /\ \A k \in 1..Len(day_log) :
            /\ k > 1 => day_log[k - 1].day < day_log[k].day
            /\ \A j \in 1..Len(day_log[k].bridge) :
                day_log[k].bridge[j].timestamp = StatedMidday(day_log[k].day)

\* The input had a later day before an earlier one, and a bridge was made.
C27_Witness ==
    /\ CoarsenDone
    /\ \E i, j \in 1..Len(coarsen_input) :
        /\ i < j
        /\ LocalDate(coarsen_input[i].timestamp) > LocalDate(coarsen_input[j].timestamp)
    /\ BridgesMade >= 1
    /\ Len(day_log) >= 2

-----------------------------------------------------------------------------
(* Properties of compute_location_stats and print_stats *)

StatsComputed == stats_pc \in {"computed", "printed"}

\* The result the i-th coordinate is counted with: the answer to the first
\* coordinate with its key, up to it, that the lookup answered; <<>> if none.
ResultFor(i) ==
    LET answered == {j \in 1..i :
                        /\ cache_key(stats_input[j]) = cache_key(stats_input[i])
                        /\ search(as_latlon(stats_input[j])) # <<>>}
    IN IF answered = {} THEN <<>>
       ELSE search(as_latlon(stats_input[CHOOSE j \in answered :
                                             \A other \in answered : j <= other]))

CountryOf(i) == IF ResultFor(i) = <<>> THEN "" ELSE upper(ResultFor(i)[1].cc)

\* C18: within one call no rounded key is looked up twice, whatever the
\* lookup returns.
C18_OneLookupPerKey ==
    StatsComputed =>
        \A a, b \in 1..Len(search_calls) : a # b => search_calls[a] # search_calls[b]

LatestFirst(visits) ==
    \A a, b \in 1..Len(visits) : a < b => visits[a].last_seen >= visits[b].last_seen

\* C19: each country's last_seen is the latest timestamp of the coordinates
\* resolved to it, in whatever order they came; countries, us_states, the
\* regions of each group, and the groups by their first region, are in
\* descending order of last_seen.
C19_LastSeenAndOrder ==
    (StatsComputed /\ stats # <<>>) =>
        LET countries == stats[1].countries
            groups == stats[1].region_groups
        IN /\ \A a, b \in 1..Len(countries) :
                a # b => countries[a].identifier # countries[b].identifier
           /\ {countries[a].identifier : a \in 1..Len(countries)}
              = {CountryOf(i) : i \in 1..Len(stats_input)} \ {""}
           /\ \A a \in 1..Len(countries) :
                /\ \A i \in 1..Len(stats_input) :
                    CountryOf(i) = countries[a].identifier
                        => stats_input[i].timestamp <= countries[a].last_seen
                /\ \E i \in 1..Len(stats_input) :
                    /\ CountryOf(i) = countries[a].identifier
                    /\ stats_input[i].timestamp = countries[a].last_seen
           /\ LatestFirst(countries)
           /\ LatestFirst(stats[1].us_states)
           /\ \A g \in 1..Len(groups) : LatestFirst(groups[g].regions)
           /\ \A g, h \in 1..Len(groups) :
                g < h => groups[g].regions[1].last_seen >= groups[h].regions[1].last_seen

\* Two countries, one of them seen twice with the later visit processed
\* first, and a region group.
C19_Witness ==
    /\ StatsComputed /\ stats # <<>>
    /\ Len(stats[1].countries) >= 2
    /\ stats[1].region_groups # <<>>
    /\ \E i, j \in 1..Len(stats_input) :
        /\ i < j
        /\ CountryOf(i) # "" /\ CountryOf(i) = CountryOf(j)
        /\ stats_input[i].timestamp > stats_input[j].timestamp

Unavailable == << <<"Travel stats unavailable">> >>

\* C20: compute_location_stats returns None exactly when the lookup module is
\* absent, and otherwise a LocationStats, empty or not; print_stats reports
\* "unavailable" exactly for None and prints the stats header otherwise.
C20_NoneOnlyWithoutLookup ==
    /\ StatsComputed => (stats = <<>> <=> reverse_geocoder = <<>>)
    /\ stats_pc = "printed" =>
        /\ printed = Unavailable <=> reverse_geocoder = <<>>
        /\ reverse_geocoder # <<>> =>
            /\ printed # <<>>
            /\ printed[1] = <<"Travel Stats">>

\* Stats computed from coordinates but empty, and printed.
C20_Witness ==
    /\ stats_pc = "printed"
    /\ stats_input # <<>>
    /\ stats = << LocationStats(<<>>, <<>>, <<>>) >>
    /\ printed = << <<"Travel Stats">>, <<"------------">>, <<"Visited countries: ", 0>> >>

\* The region name the i-th coordinate is counted with, "" when it has none.
AdminOf(i) == IF ResultFor(i) = <<>> THEN "" ELSE strip_name(ResultFor(i)[1].admin1)

\* What each coordinate is counted with: <<country code, region name>>.
CountedWith ==
    listed([i \in 1..Len(stats_input) |-> <<CountryOf(i), AdminOf(i)>>], Len(stats_input))

\* A coordinate counted with this pair has a country and a region name.
Subnational(pair) == pair[1] # "" /\ pair[2] # ""

\* It is of the US and its region name is in the alias table.
IsState(pair) == pair[1] = "US" /\ lower(pair[2]) \in DOMAIN US_STATE_ALIASES

StateEntries == {stats[1].us_states[a].identifier : a \in 1..Len(stats[1].us_states)}

\* The region entries returned, each as <<country code of its group, label>>.
RegionEntries ==
    UNION {{<<stats[1].region_groups[g].country_code,
              stats[1].region_groups[g].regions[r].label>> :
               r \in 1..Len(stats[1].region_groups[g].regions)} :
           g \in 1..Len(stats[1].region_groups)}

NumRegionEntries ==
    LET groups == stats[1].region_groups
        counted[g \in 0..Len(groups)] ==
            IF g = 0 THEN 0 ELSE counted[g - 1] + Len(groups[g].regions)
    IN counted[Len(groups)]

NoGroupOfUS ==
    \A g \in 1..Len(stats[1].region_groups) :
        stats[1].region_groups[g].country_code # "US"

-----------------------------------------------------------------------------
(* Properties of the two filters together *)

\* C30: the date filter and the zone filter keep the same coordinates, in the
\* same order, whichever of the two runs first; and filter_no_fly_zones given
\* the list it kept returns that list and no counts.
C30_FiltersCommute ==
    commute_pc = "done" =>
        /\ date_then_zones = zones_then_date
        /\ zones_twice.filtered = zones_once.filtered
        /\ zones_twice.excluded_counts = NoCounts

\* A run where each filter dropped a coordinate the other one kept, and
\* something was left.
C30_Witness ==
    /\ commute_pc = "done"
    /\ date_then_zones # <<>>
    /\ zones_once.excluded_counts # NoCounts
    /\ \E k \in 1..Len(zones_once.filtered) :
          ~within_range(zones_once.filtered[k].timestamp, commute_start, commute_end)
    /\ \E k \in 1..Len(commute_input) :
          /\ within_range(commute_input[k].timestamp, commute_start, commute_end)
          /\ locate_no_fly_zone(commute_input[k]) # <<>>

-----------------------------------------------------------------------------
(* Properties of the haversine formula *)

\* C23: both haversine functions give the same distance from p to q as from
\* q to p, and zero from p to p.
C23_SymmetricAndZeroOnSelf ==
    /\ vectorized # <<>> => vectorized[1] = vectorized[2] /\ vectorized[3] = 0
    /\ pairwise # <<>> => pairwise[1] = pairwise[2] /\ pairwise[3] = 0

\* Both functions have run on two points that differ in latitude and in
\* longitude, at unequal cosines, and are some distance apart.
C23_Witness ==
    /\ vectorized # <<>> /\ pairwise # <<>>
    /\ haversine_points[1].longitude # haversine_points[2].longitude
    /\ np_cos(np_radians(haversine_points[1].latitude))
          # np_cos(np_radians(haversine_points[2].latitude))
    /\ vectorized[1] > 0 /\ pairwise[1] > 0

-----------------------------------------------------------------------------
(* Properties of a run of main *)

StagesRun == {run_trace[k].stage : k \in 1..Len(run_trace)}

LastStage == run_trace[Len(run_trace)]

\* The order main runs its stages in.
StageOrder ==
    <<"load_takeout_payload", "extract_coordinates", "apply_date_filters",
      "filter_no_fly_zones", "coarsen_coordinates", "build_segments">>

StageRank(name) == CHOOSE r \in 1..Len(StageOrder) : StageOrder[r] = name

\* The wording of each failure, as the user reads it.
Reported(name) ==
    CASE name = "load_takeout_payload" ->
             <<"No location entries found in the supplied file.">>
      [] name = "extract_coordinates" ->
             <<"No location records could be parsed from the supplied file.">>
      [] name = "apply_date_filters" ->
             <<"No location records matched the specified filters.">>
      [] name = "filter_no_fly_zones" ->
             <<"All records were removed by the no-fly zone filters. Retry without --exclude-no-fly-zones or adjust your data range.">>
      [] name = "build_segments" ->
             <<"All segments were discarded. Try increasing --jump-threshold-km.">>
      [] OTHER -> <<>>

\* C21: the stages run in the fixed order; a stage runs only when every one
\* before it returned something; the run stops at the first stage that
\* returned nothing, with that stage's own message and no other stage's; and
\* the segmentation message is given only for a non-empty list of coordinates.
C21_FirstEmptyStageReported ==
    /\ \A j, k \in 1..Len(run_trace) :
          j < k => /\ StageRank(run_trace[j].stage) < StageRank(run_trace[k].stage)
                   /\ run_trace[j].count > 0
    /\ (run_trace # <<>> /\ LastStage.count = 0) =>
          run_pc = "SystemExit" /\ run_message = Reported(LastStage.stage)
    /\ (run_pc = "SystemExit" /\ run_message # <<"Input file not found">>) =>
          run_trace # <<>> /\ LastStage.count = 0
    /\ run_message = Reported("build_segments") => run_coordinates # <<>>

\* A run that the zone filter emptied, after a date filter that kept something.
C21_Witness ==
    /\ run_pc = "SystemExit"
    /\ Len(run_trace) = 4
    /\ LastStage = Stage("filter_no_fly_zones", 0)
    /\ run_message = Reported("filter_no_fly_zones")

\* C24: when main coarsens it excludes the no-fly zones too, whatever the
\* options say; the zone filter has run before coarsen_coordinates is called,
\* and no coordinate given to coarsen_coordinates lies in a zone.
C24_CoarseningFiltersZonesFirst ==
    /\ apply_coarsening => exclude_no_fly_zones
    /\ \A k \in 1..Len(run_trace) :
          run_trace[k].stage = "coarsen_coordinates" =>
              /\ \E j \in 1..(k - 1) : run_trace[j].stage = "filter_no_fly_zones"
              /\ \A i \in 1..Len(run_raw) : locate_no_fly_zone(run_raw[i]) = <<>>

\* A run with --include-no-fly-zones that coarsened what the zone filter left
\* of a list with a coordinate inside a zone.
C24_Witness ==
    /\ "coarsen_coordinates" \in StagesRun
    /\ args.include_no_fly_zones
    /\ run_raw # <<>>
    /\ \E k \in 1..Len(run_all_coordinates) :
          locate_no_fly_zone(run_all_coordinates[k]) # <<>>

\* C25: a file is written only by a run that every stage let through, as its
\* last step; a run that left with an error has written nothing; and the
\* path is the one --output names or, without it, the default directory with
\* trajectory_coarsen.html after coarsening, trajectory_nfz.html after the
\* zone filter alone and trajectory_full.html otherwise.
C25_WrittenLastAndNamed ==
    /\ run_pc \in {"SystemExit", "ValueError"} => run_written = <<>>
    /\ run_written # <<>> =>
          /\ run_pc = "written"
          /\ run_message = <<>>
          /\ {"load_takeout_payload", "extract_coordinates", "apply_date_filters",
              "build_segments"} \subseteq StagesRun
          /\ \A k \in 1..Len(run_trace) : run_trace[k].count > 0
          /\ run_written[1] =
                IF args.output # <<>> THEN args.output[1]
                ELSE <<"src",
                       IF "coarsen_coordinates" \in StagesRun
                       THEN "trajectory_coarsen.html"
                       ELSE IF "filter_no_fly_zones" \in StagesRun
                            THEN "trajectory_nfz.html"
                            ELSE "trajectory_full.html">>

\* A run without --output that filtered the zones, did not coarsen and wrote
\* its file.
C25_Witness ==
    /\ run_pc = "written"
    /\ args.output = <<>>
    /\ "filter_no_fly_zones" \in StagesRun
    /\ "coarsen_coordinates" \notin StagesRun
    /\ run_written = << <<"src", "trajectory_nfz.html">> >>

\* C28: after coarsening, no coordinate main goes on with lies in a no-fly zone.
C28_NoCoarsenedPointInZone ==
    "coarsen_coordinates" \in StagesRun =>
        \A k \in 1..Len(run_coordinates) : locate_no_fly_zone(run_coordinates[k]) = <<>>

====
